---------------------------- MODULE Spec2Model ----------------------------
(***************************************************************************)
(* A model of the SSDP discovery engine of dlna_server (src/DLNA/ssdp.py), *)
(* of the plugin that drives it (src/DLNA/plugin.py), of the announcement  *)
(* scheduler (src/DLNA/server.py) and of the service shutdown path         *)
(* (src/DLNA/utils.py).                                                    *)
(*                                                                         *)
(* SpecDisc holds a running engine and feeds it datagrams: it is the       *)
(* specification of the claims on request parsing and on discovery         *)
(* replies.  Spec is the life cycle: the bus starting the plugins, the     *)
(* receive thread, the scheduler thread and the thread that stops the      *)
(* service.  The other specifications restrict the life cycle to one part  *)
(* of the program: the scheduler (SpecSched, SpecSchedFail), the first run *)
(* on a new port (SpecFirstRun), the registry (SpecReg), the announcements *)
(* (SpecAnnounce), the interfaces (SpecJoin), the renderer and protocol    *)
(* plugins (SpecPlug, SpecReload, SpecAccess), the HTTP port binder        *)
(* (SpecPort), the port test of Service.run (SpecPortCheck), the callers   *)
(* of start, stop and update_ip (SpecCallers), the assignment of a new     *)
(* protocol (SpecHot) and DLNAServer of src/server.py (SpecDlna).          *)
(***************************************************************************)
EXTENDS Integers, Sequences, FiniteSets, TLC

VARIABLES
    \* SSDPServer (src/DLNA/ssdp.py)
    known,            \* SSDPServer.known: USN -> advertisement record
    ip_list,          \* SSDPServer.ip_list: sequence of [ip, mask]
    sock_list,        \* SSDPServer.sock_list: sequence of Sock objects
    sock,             \* SSDPServer.sock: "None" | "open" | "bound"
    running,          \* SSDPServer.running
    sending_byebye,   \* SSDPServer.sending_byebye
    \* the receive thread (SSDP_THREAD)
    rx,               \* its position in run(); "none" before the first start
    rx_i,             \* the index of the loop over ip_list
    rx_todo,          \* the USNs the first loop of shutdown() has still to visit
    dgram,            \* the datagram the receive loop handled last
    replies,          \* the unicast replies sent for that datagram
    now,              \* the wall clock, in seconds
    \* cherrypy.engine and what is subscribed to it
    bus,              \* cherrypy.engine.state
    http,             \* the HTTP listener: "down" | "serving"
    subscribed,       \* ssdp_notify and ssdp_update_ip are subscribed
    restart_lock,     \* SSDPPlugin.restart_lock: "free" or its holder
    mon_cancel,       \* the Monitor of Service.notify has been told to stop
    \* the thread of Service.run, the scheduler thread, the stop thread
    svc, svc_i,
    sch, sch_i,
    ssdp_monitor_counter,
    stp,
    \* SSDPPlugin and Setting
    devices,          \* SSDPPlugin.devices
    usn_setting,      \* the USN setting: what Setting.get_usn() returns
    port_differs,     \* the port that gets bound is not the ApplicationPort setting
    last_ip,          \* Setting.last_ip
    \* the environment
    cur_ip,           \* the interfaces psutil reports
    nojoin,           \* the addresses IP_ADD_MEMBERSHIP fails for
    ip_changes,       \* how often the interfaces have changed
    ticks,            \* how often Service.notify has run
    \* history, for the properties
    cycle,            \* the stop() call in progress or returned last
    bye,              \* the byebye notifications sent since that call
    alive,            \* the alive notifications of the do_notify call in progress
    bind_failed,      \* a bind of port 1900 has failed
    tk,               \* the tick of Service.notify in progress or run last
    call,             \* the call of the registry made last
    \* RendererPlugin and ProtocolPlugin (src/DLNA/plugin.py)
    cur,              \* RendererPlugin.renderer, ProtocolPlugin.protocol
    subs,             \* the handlers subscribed to the bus: [topic, obj]
    impl_running,     \* Renderer.running, Protocol.running of every instance
    pt,               \* the call of start, stop, set_renderer or set_protocol
                      \* in progress or made last
    pub,              \* the publish() of another thread in progress or made last
    active,           \* history: the plugin has been started and not stopped
    \* AutoPortServer (src/DLNA/server.py)
    ap,               \* cherrypy.server: the port of bind_addr, the position of
                      \* start(), and the history of its bind attempts
    \* Setting and Service (src/DLNA/utils.py, src/DLNA/server.py)
    ident,            \* Setting.temp_friendly_name, and the history of the port
                      \* test of Service.run
    rl,               \* the Renderer.reload / Protocol.reload in progress
    held,             \* Service._renderer, Service._protocol
    hs,               \* the assignment of Service.protocol in progress or made last
    dlna              \* DLNAServer (src/server.py), its threads and the bus

vKnown == <<known, call>>
vEng   == <<ip_list, sock_list, sock>>
vFlag  == <<running, sending_byebye>>
vRx    == <<rx, rx_i, rx_todo>>
vIo    == <<dgram, replies>>
vBus   == <<bus, http, subscribed, restart_lock, mon_cancel>>
vSvc   == <<svc, svc_i>>
vSch   == <<sch, sch_i, ssdp_monitor_counter, tk>>
vDev   == <<devices, usn_setting, port_differs>>
vEnv   == <<cur_ip, nojoin, ip_changes, ticks>>
vHist  == <<cycle, bye, alive, bind_failed>>
vPlug  == <<cur, subs, impl_running, pt, pub, active>>
vMore  == <<rl, held, hs, dlna>>
vNew   == <<ident, vMore>>
vExt   == <<vPlug, ap, vNew>>
vCore  == <<vKnown, vEng, vFlag, vRx, vIo, now, vBus, vSvc, vSch, stp, vDev,
            last_ip, vEnv, vHist>>

vars == <<known, ip_list, sock_list, sock, running, sending_byebye,
          rx, rx_i, rx_todo, dgram, replies, now,
          bus, http, subscribed, restart_lock, mon_cancel,
          svc, svc_i, sch, sch_i, ssdp_monitor_counter, stp,
          devices, usn_setting, port_differs, last_ip, cur_ip, nojoin, ip_changes, ticks,
          cycle, bye, alive, bind_failed, tk, call,
          cur, subs, impl_running, pt, pub, active, ap, ident, rl, held, hs, dlna>>

-----------------------------------------------------------------------------
(* Bounds of the model.                                                    *)

MaxClock == 2
MaxIpChanges == 1
MaxTicks == 2
MaxSchedTicks == 21
MaxRestarts == 3
MaxServices == 3

-----------------------------------------------------------------------------
(* Addresses.  An IPv4 address or netmask is the tuple of its four octets, *)
(* which is what get_subnet_ip makes of the dotted string.                 *)

RECURSIVE BitAnd(_, _)
BitAnd(a, b) ==
    IF a = 0 \/ b = 0 THEN 0
    ELSE (a % 2) * (b % 2) + 2 * BitAnd(a \div 2, b \div 2)

If1 == [ip |-> <<192, 168, 1, 10>>,  mask |-> <<255, 255, 255, 0>>]
If2 == [ip |-> <<10, 0, 0, 5>>,      mask |-> <<255, 0, 0, 0>>]
If3 == [ip |-> <<192, 168, 1, 200>>, mask |-> <<255, 255, 255, 128>>]

Interfaces == {If1, If2, If3}

Hosts == { <<192, 168, 1, 50>>, <<192, 168, 1, 130>>,
           <<10, 168, 1, 10>>, <<172, 16, 0, 9>> }

\* The dotted string of a local address, as str.format writes it.
IpStr(ip) ==
    CASE ip = <<192, 168, 1, 10>>  -> "192.168.1.10"
      [] ip = <<10, 0, 0, 5>>      -> "10.0.0.5"
      [] ip = <<192, 168, 1, 200>> -> "192.168.1.200"
      [] OTHER                     -> "?"

\* The sequences without repetition over a set: the orders list(set) can give.
RECURSIVE Orders(_)
Orders(S) ==
    IF S = {} THEN { <<>> }
    ELSE UNION { { <<x>> \o t : t \in Orders(S \ {x}) } : x \in S }

IpLists == UNION { Orders(S) : S \in SUBSET Interfaces }

\* list(S): the order the set is iterated in.
ListOf(S) == CHOOSE l \in Orders(S) : TRUE

Range(f) == { f[i] : i \in DOMAIN f }

-----------------------------------------------------------------------------
(* The device registry.                                                    *)

SERVER_ID == "SSDP Server"

RecordKeys == {"USN", "LOCATION", "ST", "EXT", "SERVER", "CACHE-CONTROL"}

\* A LOCATION template "pre{}post".
Loc80 == [pre |-> "http://", post |-> ":80/d.xml"]

\* response.format(ip) on a template.
Format(location, ip) == location.pre \o IpStr(ip) \o location.post

\* The record register() stores under known[usn].
Record(usn, st, location, server, cache_control) ==
    [k \in RecordKeys |->
        CASE k = "USN"           -> usn
          [] k = "LOCATION"      -> location
          [] k = "ST"            -> st
          [] k = "EXT"           -> ""
          [] k = "SERVER"        -> server
          [] k = "CACHE-CONTROL" -> cache_control]

\* register() leaving a record that is already there as it is.
register_keep(kn, usn, st, location, server, cache_control) ==
    IF usn \in DOMAIN kn THEN kn
    ELSE [u \in DOMAIN kn \cup {usn} |->
            IF u = usn THEN Record(usn, st, location, server, cache_control)
            ELSE kn[u]]

\* known after register(usn, st, location, server, cache_control).
register(kn, usn, st, location, server, cache_control) ==
    [u \in DOMAIN kn \cup {usn} |->
        IF u = usn THEN Record(usn, st, location, server, cache_control)
        ELSE kn[u]]

\* known after a successful del self.known[usn].
unregister(kn, usn) == [u \in DOMAIN kn \ {usn} |-> kn[u]]

\* The record sent as it is, with its ST header.
notify_headers_st(rec) == rec

\* The headers do_notify and do_byebye make of a record: stcpy = dict(record),
\* stcpy['NT'] = stcpy['ST'], del stcpy['ST'].
notify_headers(rec) ==
    [k \in (DOMAIN rec \cup {"NT"}) \ {"ST"} |->
        IF k = "NT" THEN rec["ST"] ELSE rec[k]]


-----------------------------------------------------------------------------
(* Datagrams.  A datagram is kept as what decode() and the two split()     *)
(* calls of datagram_received make of it: whether it decodes, the tokens   *)
(* of the request line (lines[0].split(' '); none when the header block is *)
(* empty) and the non-empty header lines, each with its name, whether it   *)
(* holds a colon, and the text after the first colon.                      *)

Line(name, value) == [name |-> name, colon |-> TRUE, value |-> value]
NoColon(text)     == [name |-> text, colon |-> FALSE, value |-> ""]

MSearch(hdrs) ==
    [decodable |-> TRUE, cmd |-> <<"M-SEARCH", "*", "HTTP/1.1">>, hdrs |-> hdrs]

Man == Line("MAN", "\"ssdp:discover\"")

GoodDatagrams ==
    { MSearch(<<Man, Line("ST", "upnp:rootdevice"), Line("MX", "1")>>),
      MSearch(<<Man, Line("St", "uuid:ABC"), Line("MX", "0")>>),
      MSearch(<<Man, Line("ST", "ssdp:all"), Line("MX", "2")>>),
      MSearch(<<Man, Line("ST", "urn:none"), Line("MX", "1")>>),
      MSearch(<<Man, Line("ST", "upnp:rootdevice")>>),
      MSearch(<<Man, Line("MX", "1")>>),
      [decodable |-> TRUE, cmd |-> <<"NOTIFY", "*", "HTTP/1.1">>,
       hdrs |-> <<Line("NT", "upnp:rootdevice"), Line("NTS", "ssdp:alive")>>] }

Undecodable == [decodable |-> FALSE, cmd |-> <<>>, hdrs |-> <<>>]
Empty       == [decodable |-> TRUE, cmd |-> <<>>, hdrs |-> <<>>]
OneToken    == [decodable |-> TRUE, cmd |-> <<"M-SEARCH">>,
                hdrs |-> <<Line("ST", "ssdp:all")>>]
ColonLess   == MSearch(<<Man, NoColon("garbage"), Line("ST", "ssdp:all")>>)
BadMX       == MSearch(<<Man, Line("ST", "ssdp:all"), Line("MX", "abc")>>)
NegativeMX  == MSearch(<<Man, Line("ST", "ssdp:all"), Line("MX", "-1")>>)
UnknownCmd  == [decodable |-> TRUE, cmd |-> <<"SUBSCRIBE", "*", "HTTP/1.1">>,
                hdrs |-> <<Line("HOST", "239.255.255.250:1900")>>]

MalformedDatagrams ==
    {Undecodable, Empty, OneToken, ColonLess, BadMX, NegativeMX, UnknownCmd}

Datagrams == GoodDatagrams \cup MalformedDatagrams

\* No datagram handled yet.
NoDatagram == [data |-> Empty, host |-> <<0, 0, 0, 0>>, raised |-> FALSE]

\* str.lower() on the header names in use.
Lower(s) ==
    CASE s = "ST"   -> "st"
      [] s = "St"   -> "st"
      [] s = "MX"   -> "mx"
      [] s = "MAN"  -> "man"
      [] s = "HOST" -> "host"
      [] s = "NT"   -> "nt"
      [] s = "NTS"  -> "nts"
      [] OTHER      -> s

\* int(s): the value, or ok = FALSE where int() raises ValueError.
ParseInt(s) ==
    CASE s = "0"  -> [ok |-> TRUE, val |-> 0]
      [] s = "1"  -> [ok |-> TRUE, val |-> 1]
      [] s = "2"  -> [ok |-> TRUE, val |-> 2]
      [] s = "3"  -> [ok |-> TRUE, val |-> 3]
      [] s = "-1" -> [ok |-> TRUE, val |-> 0 - 1]
      [] OTHER    -> [ok |-> FALSE, val |-> 0]

\* dict(map(lambda x: (x[0].lower(), x[1]), headers)): the last line of a name wins.
Headers(hdrs) ==
    [k \in { Lower(hdrs[i].name) : i \in DOMAIN hdrs } |->
        LET last == CHOOSE i \in DOMAIN hdrs :
                        /\ Lower(hdrs[i].name) = k
                        /\ \A j \in DOMAIN hdrs : Lower(hdrs[j].name) = k => j <= i
        IN  hdrs[last].value]

\* headers.get(key, default)
Get(headers, key, default) ==
    IF key \in DOMAIN headers THEN headers[key] ELSE default

-----------------------------------------------------------------------------
(* Discovery.                                                              *)

\* get_subnet_ip with range(3) for range(4): the last octet is left out.
get_subnet_ip_3(ip, mask) == [i \in 1..3 |-> BitAnd(mask[i], ip[i])]

\* get_subnet_ip(ip, mask): the octets of ip under mask.
get_subnet_ip(ip, mask) == [i \in 1..4 |-> BitAnd(mask[i], ip[i])]

\* The condition of the inner loop of discovery_request on one interface.
SubnetMatch(ifc, host) ==
    get_subnet_ip(ifc.ip, ifc.mask) = get_subnet_ip(host, ifc.mask)

\* The index in ip_list the inner loop breaks at; 0 when it runs to its end.
FirstMatch(ipl, host) ==
    IF \E i \in DOMAIN ipl : SubnetMatch(ipl[i], host)
    THEN CHOOSE i \in DOMAIN ipl :
            /\ SubnetMatch(ipl[i], host)
            /\ \A j \in DOMAIN ipl : SubnetMatch(ipl[j], host) => i <= j
    ELSE 0

\* The outer loop without its ST test: every record with a USN is answered.
AnsweredAnyST(kn, headers) == { u \in DOMAIN kn : kn[u]["USN"] # "" }

\* The records the outer loop builds a response for: the ST test, then `if usn`.
Answered(kn, headers) ==
    LET search_target == Get(headers, "st", "ssdp:all")
    IN  { u \in DOMAIN kn :
            /\ kn[u]["ST"] = search_target \/ search_target = "ssdp:all"
            /\ kn[u]["USN"] # "" }

\* max_delay = int(headers.get('mx', '3'))
MaxDelay(headers) == ParseInt(Get(headers, "mx", "3"))

\* The sends of the outer loop over the records of S, one record at a time.
\* delay is random.randint(0, max_delay); nothing suspends between it and sendto,
\* so the reply leaves at the time t the delay was drawn at.
RECURSIVE Sends(_, _, _, _, _, _)
Sends(S, kn, ipl, host, dl, t) ==
    IF S = {} THEN <<>>
    ELSE LET u == CHOOSE x \in S : TRUE
             m == FirstMatch(ipl, host)
             one == IF m = 0 THEN <<>>
                    ELSE << [USN           |-> kn[u]["USN"],
                             ST            |-> kn[u]["ST"],
                             LOCATION      |-> Format(kn[u]["LOCATION"], ipl[m].ip),
                             dest          |-> host,
                             via           |-> ipl[m].ip,
                             delay         |-> dl[u],
                             chosen_at     |-> t,
                             sent_at       |-> t] >>
         IN  one \o Sends(S \ {u}, kn, ipl, host, dl, t)

\* discovery_request(headers, (host, port)) with the delays dl drawn per record:
\* what it sends, and whether it raises (int() on MX, randint on a negative MX).
discovery_request(kn, ipl, headers, host, dl, t) ==
    LET mx == MaxDelay(headers)
        S  == Answered(kn, headers)
    IN  IF ~mx.ok THEN [raised |-> TRUE, sent |-> <<>>]
        ELSE IF S # {} /\ mx.val < 0 THEN [raised |-> TRUE, sent |-> <<>>]
        ELSE [raised |-> FALSE, sent |-> Sends(S, kn, ipl, host, dl, t)]

\* datagram_received(data, (host, port)).
datagram_received(kn, ipl, data, host, dl, t) ==
    IF ~data.decodable THEN [raised |-> FALSE, sent |-> <<>>]
    ELSE IF data.cmd = <<>> THEN [raised |-> FALSE, sent |-> <<>>]
    ELSE IF \E i \in DOMAIN data.hdrs : ~data.hdrs[i].colon
         THEN [raised |-> TRUE, sent |-> <<>>]       \* x[1] of a one-element split
    ELSE IF Len(data.cmd) < 2
         THEN [raised |-> TRUE, sent |-> <<>>]       \* cmd[1]
    ELSE IF data.cmd[1] = "M-SEARCH" /\ data.cmd[2] = "*"
         THEN discovery_request(kn, ipl, Headers(data.hdrs), host, dl, t)
    ELSE [raised |-> FALSE, sent |-> <<>>]           \* NOTIFY, or an unknown command

\* The delays one call can draw: one per answered record, each in 0..max_delay.
Delays(kn, data) ==
    LET h  == Headers(data.hdrs)
        mx == MaxDelay(h)
        isSearch == /\ data.decodable
                    /\ Len(data.cmd) >= 2
                    /\ data.cmd[1] = "M-SEARCH" /\ data.cmd[2] = "*"
                    /\ \A i \in DOMAIN data.hdrs : data.hdrs[i].colon
    IN  IF isSearch /\ mx.ok /\ mx.val >= 0
        THEN [Answered(kn, h) -> 0..mx.val]
        ELSE { [u \in {} |-> 0] }

-----------------------------------------------------------------------------
(* SSDPPlugin: the six devices of one root USN.                            *)

\* Setting.get_usn(): the persisted identity.
get_usn == usn_setting

\* Setting.get_server_info()
get_server_info == "Linux/6 UPnP/1.0 DLNA/0.0"

DEFAULT_PORT == 0

\* The port the HTTP listener is bound to: cherrypy.server.bound_addr.
BoundPort == 8080

\* str(port)
PortStr(port) == IF port = 0 THEN "0" ELSE "8080"

\* Setting.get_port(): the ApplicationPort setting, the bound port once
\* Service.run has stored it (line 169) and DEFAULT_PORT before.
get_port == IF port_differs THEN DEFAULT_PORT ELSE BoundPort

\* The LOCATION template of a port.
LocationOf(port) ==
    [pre |-> "http://", post |-> ":" \o PortStr(port) \o "/description.xml"]

\* 'http://{{}}:{}/description.xml'.format(Setting.get_port())
PluginLocation == LocationOf(get_port)

DeviceSuffixes ==
    << "upnp:rootdevice",
       "",
       "urn:schemas-upnp-org:device:MediaRenderer:1",
       "urn:schemas-upnp-org:service:RenderingControl:1",
       "urn:schemas-upnp-org:service:ConnectionManager:1",
       "urn:schemas-upnp-org:service:AVTransport:1" >>

\* One entry of SSDPPlugin.devices: the string, and what device[43:] is of it.
Device(uuid, suffix) ==
    [usn  |-> "uuid:" \o uuid \o (IF suffix = "" THEN "" ELSE "::" \o suffix),
     tail |-> suffix]

build_device_info ==
    [i \in DOMAIN DeviceSuffixes |-> Device(get_usn, DeviceSuffixes[i])]

\* known after the call of ssdp.register for one device in SSDPPlugin.register.
plugin_register(kn, device) ==
    register(kn, device.usn,
             IF device.tail # "" THEN device.tail ELSE device.usn,
             PluginLocation, get_server_info, "max-age=66")

NoRecords == [u \in {} |-> 0]

\* No call of the registry has been made.
NoCall == [inst |-> 0, op |-> "none", usn |-> "", raised |-> FALSE,
           before |-> NoRecords, st |-> "", location |-> Loc80, server |-> "",
           cache_control |-> ""]

-----------------------------------------------------------------------------
(* The interfaces of the life-cycle specification, and its datagrams.      *)

LifeInterfaces == {If1, If2}

LifeHost == <<192, 168, 1, 50>>

LifeDatagrams ==
    { MSearch(<<Man, Line("ST", "upnp:rootdevice"), Line("MX", "0")>>), BadMX }

-----------------------------------------------------------------------------
(* History.                                                                *)

NoCycle == [active |-> FALSE, byebye |-> FALSE, at_call |-> {}, returned |-> FALSE]

\* stop(byebye) has found the engine running.
BeginCycle(byebye) ==
    /\ cycle' = [active |-> TRUE, byebye |-> byebye,
                 at_call |-> DOMAIN known, returned |-> FALSE]
    /\ bye' = <<>>

\* stop() returns.
EndCycle == cycle' = [cycle EXCEPT !.returned = TRUE]

\* stop_service, lines 221-225: nothing to do on a bus that is stopped or
\* stopping; else the wait for STARTED.
stop_service_enter == IF bus \in {"STOPPED", "STOPPING", "EXITING"} THEN "none" ELSE "wait"

\* The receive thread has ended: run() returned, or an exception ended it.
Terminated == rx \in {"none", "done", "crashed"}

-----------------------------------------------------------------------------
(* SSDPServer.start and SSDPServer.stop, as the steps of the calling       *)
(* thread.                                                                 *)

\* start(): a no-op on a running engine, else the flags and the new thread.
start ==
    IF running
    THEN UNCHANGED <<running, sending_byebye, rx, rx_i, rx_todo, dgram, replies,
                     cycle, bye>>
    ELSE /\ running' = TRUE
         /\ cycle' = NoCycle
         /\ bye' = <<>>
         /\ sending_byebye' = TRUE
         /\ rx' = "open"
         /\ rx_i' = 0
         /\ rx_todo' = {}
         /\ dgram' = NoDatagram
         /\ replies' = <<>>

\* stop(), its first statement on a running engine.
stop_running == running' = FALSE

\* stop(), self.sending_byebye = byebye.
stop_flag(byebye) == sending_byebye' = byebye

\* stop() without its join: it goes on whatever the thread is doing.
stop_join_skipped == TRUE

\* stop(), self.ssdp_thread.join(): returns once the thread has ended.
stop_join == Terminated

-----------------------------------------------------------------------------
(* The receive thread: SSDPServer.run.                                     *)

\* A Sock object; nothing in the program calls Sock.close.
Sock(ip) == [ip |-> ip, open |-> TRUE]

\* send_it: one datagram through every Sock of sock_list.
send_it(sl, what) == [i \in DOMAIN sl |-> [msg |-> what, ip |-> sl[i].ip]]

\* Lines 85-112: the receive socket, then ip_list = list(Setting.get_ip()),
\* which also sets Setting.last_ip.
RxOpen ==
    /\ rx = "open"
    /\ sock' = "open"
    /\ ip_list' = ListOf(cur_ip)
    /\ last_ip' = cur_ip
    /\ rx' = "reset"
    /\ UNCHANGED <<known, call, sock_list, running, sending_byebye, rx_i, rx_todo,
                   dgram, replies, now, vExt, stp, vBus, vSvc, vSch, vDev, vEnv, vHist>>

\* Line 115: self.sock_list = []
RxReset ==
    /\ rx = "reset"
    /\ sock_list' = <<>>
    /\ rx_i' = 1
    /\ rx' = "join"
    /\ UNCHANGED <<known, call, ip_list, sock, running, sending_byebye, rx_todo,
                   dgram, replies, now, vExt, stp, last_ip,
                   vBus, vSvc, vSch, vDev, vEnv, vHist>>

\* Lines 116-123: one turn of the loop over ip_list.
join(sl, ifc) == IF ifc.ip \in nojoin THEN sl ELSE Append(sl, Sock(ifc.ip))

RxJoin ==
    /\ rx = "join"
    /\ IF rx_i <= Len(ip_list)
       THEN /\ sock_list' = join(sock_list, ip_list[rx_i])
            /\ rx_i' = rx_i + 1
            /\ rx' = rx
       ELSE /\ rx' = "bind"
            /\ UNCHANGED <<sock_list, rx_i>>
    /\ UNCHANGED <<known, call, ip_list, sock, running, sending_byebye, rx_todo,
                   dgram, replies, now, vExt, stp, last_ip,
                   vBus, vSvc, vSch, vDev, vEnv, vHist>>

\* Lines 125-132: bind; on failure a thread running Setting.stop_service is
\* started and run() returns, leaving self.sock as it is.
RxBind ==
    /\ rx = "bind"
    /\ \/ /\ sock' = "bound"
          /\ rx' = "loop"
          /\ UNCHANGED <<stp, bind_failed>>
       \/ /\ bind_failed' = TRUE
          /\ stp' = IF stp \in {"none", "done"} THEN stop_service_enter ELSE stp
          /\ rx' = "done"
          /\ UNCHANGED sock
    /\ UNCHANGED <<known, call, ip_list, sock_list, running, sending_byebye, rx_i, rx_todo,
                   dgram, replies, now, vExt, last_ip, cycle, bye, alive,
                   vBus, vSvc, vSch, vDev, vEnv>>

\* Line 134: while self.running
RxLoop ==
    /\ rx = "loop"
    /\ IF running
       THEN rx' = "recv" /\ UNCHANGED rx_todo
       ELSE rx' = "bye" /\ rx_todo' = DOMAIN known
    /\ dgram' = NoDatagram
    /\ replies' = <<>>
    /\ UNCHANGED <<known, call, ip_list, sock_list, sock, running, sending_byebye, rx_i,
                   now, vExt, stp, last_ip,
                   vBus, vSvc, vSch, vDev, vEnv, vHist>>

\* Lines 136-139: recvfrom times out.
RxTimeout ==
    /\ rx = "recv"
    /\ rx' = "loop"
    /\ UNCHANGED <<known, call, ip_list, sock_list, sock, running, sending_byebye, rx_i,
                   rx_todo, dgram, replies, now, vExt, stp, last_ip,
                   vBus, vSvc, vSch, vDev, vEnv, vHist>>

\* Lines 136-137: recvfrom returns a datagram and datagram_received handles it.
\* run() catches socket.timeout only: any other exception ends the thread.
Handle(data, host) ==
    \E dl \in Delays(known, data) :
        LET r == datagram_received(known, ip_list, data, host, dl, now)
        IN  /\ dgram' = [data |-> data, host |-> host, raised |-> r.raised]
            /\ replies' = r.sent
            /\ rx' = IF r.raised THEN "crashed" ELSE "loop"

RxDatagram ==
    /\ rx = "recv"
    /\ \E data \in LifeDatagrams : Handle(data, LifeHost)
    /\ UNCHANGED <<known, call, ip_list, sock_list, sock, running, sending_byebye, rx_i,
                   rx_todo, now, vExt, stp, last_ip,
                   vBus, vSvc, vSch, vDev, vEnv, vHist>>

\* do_byebye(usn): what it sends.
do_byebye(usn) ==
    IF ~sending_byebye THEN <<>>
    ELSE IF usn \notin DOMAIN known THEN <<>>     \* KeyError, caught and logged
    ELSE IF sock = "None" THEN <<>>
    ELSE send_it(sock_list, [NTS |-> "ssdp:byebye", USN |-> usn,
                             hdrs |-> notify_headers(known[usn]),
                             NT |-> known[usn]["ST"], sock |-> sock])

\* shutdown(), lines 152-153: one turn of `for st in self.known`.
RxBye ==
    /\ rx = "bye"
    /\ IF rx_todo # {}
       THEN LET st == CHOOSE u \in rx_todo : TRUE
            IN  /\ bye' = bye \o do_byebye(st)
                /\ rx_todo' = rx_todo \ {st}
                /\ rx' = rx
       ELSE /\ rx' = "unregister"
            /\ UNCHANGED <<bye, rx_todo>>
    /\ UNCHANGED <<known, call, ip_list, sock_list, sock, running, sending_byebye, rx_i,
                   dgram, replies, now, vExt, stp, last_ip, cycle, alive, bind_failed,
                   vBus, vSvc, vSch, vDev, vEnv>>

\* shutdown(), lines 154-156: every USN is unregistered.
shutdown_unregister(kn) == NoRecords

RxUnregister ==
    /\ rx = "unregister"
    /\ known' = shutdown_unregister(known)
    /\ rx' = "close"
    /\ UNCHANGED <<call, ip_list, sock_list, sock, running, sending_byebye, rx_i, rx_todo,
                   dgram, replies, now, vExt, stp, last_ip,
                   vBus, vSvc, vSch, vDev, vEnv, vHist>>

\* Lines 141-149: the memberships of self.sock are dropped, self.sock is closed.
\* The Sock objects of sock_list are left as they are.
run_close(sl) == sl

RxClose ==
    /\ rx = "close"
    /\ sock' = "None"
    /\ sock_list' = run_close(sock_list)
    /\ rx' = "done"
    /\ UNCHANGED <<known, call, ip_list, running, sending_byebye, rx_i, rx_todo,
                   dgram, replies, now, vExt, stp, last_ip,
                   vBus, vSvc, vSch, vDev, vEnv, vHist>>

RxStep ==
    \/ RxOpen \/ RxReset \/ RxJoin \/ RxBind \/ RxLoop \/ RxTimeout
    \/ RxDatagram \/ RxBye \/ RxUnregister \/ RxClose

-----------------------------------------------------------------------------
(* The thread of Service.run: cherrypy.engine.start() runs the 'start'     *)
(* listeners in the order of their priorities, SSDPPlugin.start (50), the  *)
(* Monitor of Service.notify (70), the HTTP server (75).                   *)

\* Setting.last_ip before the first get_ip().
NoneIp == { [ip |-> <<0, 0, 0, 0>>, mask |-> <<0, 0, 0, 0>>] }

\* SSDPPlugin.register: ssdp.register for every device, in the order of devices.
RECURSIVE plugin_register_all(_, _, _)
plugin_register_all(kn, devs, i) ==
    IF i > Len(devs) THEN kn
    ELSE plugin_register_all(plugin_register(kn, devs[i]), devs, i + 1)

\* Service.run, line 161: cherrypy.engine.start() begins; SSDPPlugin.start,
\* line 163: register().
SvcEngineStart ==
    /\ svc = "init"
    /\ bus = "STOPPED"
    /\ bus' = "STARTING"
    /\ known' = plugin_register_all(known, devices, 1)
    /\ svc' = "ssdp_start"
    /\ UNCHANGED <<call, vEng, vFlag, vRx, vIo, now, vExt, http, subscribed, restart_lock,
                   mon_cancel, svc_i, vSch, stp, vDev, last_ip, vEnv, vHist>>

\* SSDPPlugin.start, lines 164-166: ssdp.start(), then the two subscriptions.
SvcSsdpStart ==
    /\ svc = "ssdp_start"
    /\ start
    /\ subscribed' = TRUE
    /\ svc' = "monitor"
    /\ UNCHANGED <<vKnown, vEng, now, vExt, bus, http, restart_lock, mon_cancel, svc_i,
                   vSch, stp, vDev, last_ip, vEnv, alive, bind_failed>>

\* Monitor.start: the scheduler thread (SSDP_NOTIFY_THREAD) is started.
SvcMonitorStart ==
    /\ svc = "monitor"
    /\ sch' = "sleep"
    /\ svc' = "http"
    /\ UNCHANGED <<vKnown, vEng, vFlag, vRx, vIo, now, vExt, vBus, svc_i, sch_i,
                   ssdp_monitor_counter, tk, stp, vDev, last_ip, vEnv, vHist>>

\* AutoPortServer.start: the HTTP listener is brought up.
http_start == "serving"

SvcHttpStart ==
    /\ svc = "http"
    /\ http' = http_start
    /\ svc' = "started"
    /\ UNCHANGED <<vKnown, vEng, vFlag, vRx, vIo, now, vExt, bus, subscribed, restart_lock,
                   mon_cancel, svc_i, vSch, stp, vDev, last_ip, vEnv, vHist>>

\* cherrypy.engine.start() ends: the bus is STARTED; the test of line 165:
\* Service.run blocks when the persisted ApplicationPort is the port that was
\* bound, and takes the branch of lines 166-174 when it is not.
SvcStarted ==
    /\ svc = "started"
    /\ bus' = "STARTED"
    /\ svc' = IF port_differs THEN "p_refresh" ELSE "block"
    /\ ident' = [ident EXCEPT !.tested = TRUE, !.differed = port_differs]
    /\ UNCHANGED <<vKnown, vEng, vFlag, vRx, vIo, now, vPlug, ap, vMore, http, subscribed, restart_lock,
                   mon_cancel, svc_i, vSch, stp, vDev, last_ip, vEnv, vHist>>

SvcStep ==
    \/ SvcEngineStart \/ SvcSsdpStart \/ SvcMonitorStart
    \/ SvcHttpStart \/ SvcStarted

\* get_usn(refresh=True) giving the stored USN again.
RefreshedUsnStale == "ABC"

\* The USN that uuid.uuid4() gives to get_usn(refresh=True).
RefreshedUsn == "DEF"

\* "DLNA({0:04d})".format(random.randint(0, 9999))
RandomNames == {"DLNA(0001)", "DLNA(0002)"}

\* Service.run, lines 167-174: Setting.get_usn(refresh=True) stores a new USN,
\* the bound port is persisted, a random name is set, ssdp_update_ip is
\* published on this thread.
SvcRefresh ==
    /\ svc = "p_refresh"
    /\ usn_setting' = RefreshedUsn
    /\ port_differs' = FALSE
    /\ \E name \in RandomNames : ident' = [ident EXCEPT !.name = name]
    /\ svc' = IF subscribed THEN "p_lock" ELSE "block"
    /\ UNCHANGED <<vKnown, vEng, vFlag, vRx, vIo, now, vPlug, ap, vMore, vBus, svc_i, vSch, stp,
                   devices, last_ip, vEnv, vHist>>

\* SSDPPlugin.update_ip on the thread of Service.run, lines 153-154: the lock
\* is taken; ssdp.stop(byebye=False), lines 72-73.
SvcStopRunning ==
    /\ svc = "p_lock"
    /\ restart_lock = "free"
    /\ restart_lock' = "svc"
    /\ IF running
       THEN /\ stop_running
            /\ BeginCycle(FALSE)
            /\ svc' = "p_flag"
       ELSE /\ svc' = "p_register"
            /\ UNCHANGED <<running, cycle, bye>>
    /\ UNCHANGED <<vKnown, vEng, sending_byebye, vRx, vIo, now, vExt, bus, http, subscribed,
                   mon_cancel, svc_i, vSch, stp, vDev, last_ip, vEnv, alive,
                   bind_failed>>

\* ssdp.stop(byebye=False), line 79.
SvcStopFlag ==
    /\ svc = "p_flag"
    /\ stop_flag(FALSE)
    /\ svc' = "p_join"
    /\ UNCHANGED <<vKnown, vEng, running, vRx, vIo, now, vExt, vBus, svc_i, vSch, stp,
                   vDev, last_ip, vEnv, vHist>>

\* ssdp.stop(byebye=False), lines 80-81: the join; stop() returns.
SvcStopJoin ==
    /\ svc = "p_join"
    /\ stop_join
    /\ EndCycle
    /\ svc' = "p_register"
    /\ UNCHANGED <<vKnown, vEng, vFlag, vRx, vIo, now, vExt, vBus, svc_i, vSch, stp,
                   vDev, last_ip, vEnv, bye, alive, bind_failed>>

\* update_ip, lines 155-156: build_device_info() with the new USN, register().
SvcRegister ==
    /\ svc = "p_register"
    /\ devices' = build_device_info
    /\ known' = plugin_register_all(known, build_device_info, 1)
    /\ svc' = "p_start"
    /\ UNCHANGED <<call, vEng, vFlag, vRx, vIo, now, vExt, vBus, svc_i, vSch, stp,
                   usn_setting, port_differs, last_ip, vEnv, vHist>>

\* update_ip, line 157: ssdp.start(), the lock is released; Service.run blocks.
SvcStart ==
    /\ svc = "p_start"
    /\ start
    /\ restart_lock' = "free"
    /\ svc' = "block"
    /\ UNCHANGED <<vKnown, vEng, now, vExt, bus, http, subscribed, mon_cancel, svc_i,
                   vSch, stp, vDev, last_ip, vEnv, alive, bind_failed>>

\* The branch of Service.run taken when the bound port is not the persisted one.
SvcPortStep ==
    \/ SvcRefresh \/ SvcStopRunning \/ SvcStopFlag \/ SvcStopJoin
    \/ SvcRegister \/ SvcStart

-----------------------------------------------------------------------------
(* The scheduler thread: Service.notify every three seconds.               *)

\* The test of line 153 one tick early.
UpdateTicksEarly == 10 - 1

UpdateTicks == 10

\* is_ip_changed() answering False whatever the interfaces are.
is_ip_changed_never == FALSE

\* Setting.is_ip_changed(): Setting.last_ip != Setting.get_ip()
is_ip_changed == last_ip # cur_ip

\* No tick has run.
NoTick == [before |-> {}, seen |-> {}, ever |-> FALSE, order |-> <<>>, sweeps |-> 0]

\* The scheduler thread has ended: the Monitor was stopped, or Service.notify
\* raised (BackgroundTask.run logs the exception and raises it again).
SchEnded == sch \in {"off", "crashed"}

\* Service.notify, lines 152-155: the counter, the test, the publish of
\* ssdp_update_ip (a no-op when nothing is subscribed).  At most bound ticks
\* are looked at.
Tick(bound) ==
    /\ sch = "sleep"
    /\ ~mon_cancel
    /\ ticks < bound
    /\ ticks' = ticks + 1
    /\ last_ip' = cur_ip
    /\ tk' = [before |-> last_ip, seen |-> cur_ip, ever |-> tk.ever \/ last_ip # cur_ip,
              order |-> <<>>, sweeps |-> 0]
    /\ IF is_ip_changed \/ ssdp_monitor_counter + 1 = UpdateTicks
       THEN /\ ssdp_monitor_counter' = 0
            /\ sch' = IF subscribed THEN "u_lock" ELSE "n_publish"
       ELSE /\ ssdp_monitor_counter' = ssdp_monitor_counter + 1
            /\ sch' = "n_publish"
    /\ UNCHANGED <<vKnown, vEng, vFlag, vRx, vIo, now, vExt, vBus, vSvc, sch_i, stp,
                   vDev, cur_ip, nojoin, ip_changes, vHist>>

SchTick == Tick(MaxTicks)

\* The Monitor has been stopped: the thread ends after its sleep.
SchExit ==
    /\ sch = "sleep"
    /\ mon_cancel
    /\ sch' = "off"
    /\ UNCHANGED <<vKnown, vEng, vFlag, vRx, vIo, now, vExt, vBus, vSvc, sch_i,
                   ssdp_monitor_counter, tk, stp, vDev, last_ip, vEnv, vHist>>

\* `with self.restart_lock` without the lock: the body is entered at once.
restart_lock_ignored == TRUE

\* `with self.restart_lock`: the body is entered once the lock is free.
restart_lock_acquire == restart_lock = "free"

\* SSDPPlugin.update_ip, lines 153-154: the lock is taken; ssdp.stop(byebye=False),
\* lines 72-73.
SchStopRunning ==
    /\ sch = "u_lock"
    /\ restart_lock_acquire
    /\ restart_lock' = "sch"
    /\ tk' = [tk EXCEPT !.order = Append(@, "stop")]
    /\ IF running
       THEN /\ stop_running
            /\ BeginCycle(FALSE)
            /\ sch' = "u_flag"
       ELSE /\ sch' = "u_register"
            /\ UNCHANGED <<running, cycle, bye>>
    /\ UNCHANGED <<vKnown, vEng, sending_byebye, vRx, vIo, now, vExt, bus, http, subscribed,
                   mon_cancel, vSvc, sch_i, ssdp_monitor_counter, stp, vDev, last_ip,
                   vEnv, alive, bind_failed>>

\* ssdp.stop(byebye=False), line 79.
SchStopFlag ==
    /\ sch = "u_flag"
    /\ stop_flag(FALSE)
    /\ sch' = "u_join"
    /\ UNCHANGED <<vKnown, vEng, running, vRx, vIo, now, vExt, vBus, vSvc, sch_i,
                   ssdp_monitor_counter, tk, stp, vDev, last_ip, vEnv, vHist>>

\* ssdp.stop(byebye=False), lines 80-81: the join; stop() returns.
SchStopJoin ==
    /\ sch = "u_join"
    /\ stop_join
    /\ EndCycle
    /\ sch' = "u_register"
    /\ UNCHANGED <<vKnown, vEng, vFlag, vRx, vIo, now, vExt, vBus, vSvc, sch_i,
                   ssdp_monitor_counter, tk, stp, vDev, last_ip, vEnv, bye, alive,
                   bind_failed>>

\* update_ip, lines 155-156: build_device_info(), register().
SchRegister ==
    /\ sch = "u_register"
    /\ devices' = build_device_info
    /\ known' = plugin_register_all(known, build_device_info, 1)
    /\ tk' = [tk EXCEPT !.order = Append(@, "register")]
    /\ sch' = "u_start"
    /\ UNCHANGED <<call, vEng, vFlag, vRx, vIo, now, vExt, vBus, vSvc, sch_i,
                   ssdp_monitor_counter, stp, usn_setting, port_differs, last_ip,
                   vEnv, vHist>>

\* update_ip, line 157: ssdp.start(), and the lock is released.
SchStart ==
    /\ sch = "u_start"
    /\ start
    /\ restart_lock' = "free"
    /\ tk' = [tk EXCEPT !.order = Append(@, "start")]
    /\ sch' = "n_publish"
    /\ UNCHANGED <<vKnown, vEng, now, vExt, bus, http, subscribed, mon_cancel, vSvc,
                   sch_i, ssdp_monitor_counter, stp, vDev, last_ip, vEnv, alive,
                   bind_failed>>

\* update_ip, line 157, when threading.Thread.start() raises (no thread can be
\* started): ssdp.start() has set the flags of lines 63-64, the lock is released,
\* publish() raises ChannelFailures out of Service.notify at line 155 and
\* BackgroundTask.run raises it again: the scheduler thread ends.
SchStartRaises ==
    /\ sch = "u_start"
    /\ ~running
    /\ running' = TRUE
    /\ sending_byebye' = TRUE
    /\ restart_lock' = "free"
    /\ sch' = "crashed"
    /\ UNCHANGED <<vKnown, vEng, vRx, vIo, now, vExt, bus, http, subscribed, mon_cancel,
                   vSvc, sch_i, ssdp_monitor_counter, tk, stp, vDev, last_ip, vEnv,
                   vHist>>

\* Service.notify, line 156: the publish of ssdp_notify.
SchNotifyPublish ==
    /\ sch = "n_publish"
    /\ sch_i' = 1
    /\ sch' = IF subscribed THEN "n_check" ELSE "sleep"
    /\ UNCHANGED <<vKnown, vEng, vFlag, vRx, vIo, now, vExt, vBus, vSvc,
                   ssdp_monitor_counter, tk, stp, vDev, last_ip, vEnv, vHist>>

\* No do_notify call has sent anything.
NoAlive == [usn |-> "", msg |-> <<>>, sends |-> <<>>, complete |-> FALSE]

\* The message of do_notify for a registered device, lines 270-280.
AliveMsg(usn) ==
    [NTS |-> "ssdp:alive", USN |-> usn, hdrs |-> notify_headers(known[usn])]

\* do_notify(usn), lines 267-282: the test, the message, the first send_it.
do_notify_first(usn) ==
    IF usn \notin DOMAIN known THEN NoAlive
    ELSE [usn |-> usn, msg |-> AliveMsg(usn),
          sends |-> send_it(sock_list, AliveMsg(usn)), complete |-> FALSE]

\* SSDPPlugin.notify: the next device, and the test of do_notify, line 267; at
\* the end of devices the sweep is over.
SchNotifyCheck ==
    /\ sch = "n_check"
    /\ alive' = NoAlive
    /\ IF sch_i > Len(devices)
       THEN /\ sch' = "sleep"
            /\ tk' = [tk EXCEPT !.sweeps = @ + 1]
            /\ UNCHANGED sch_i
       ELSE /\ IF devices[sch_i].usn \notin DOMAIN known
               THEN sch' = sch /\ sch_i' = sch_i + 1
               ELSE sch' = "n_first" /\ UNCHANGED sch_i
            /\ UNCHANGED tk
    /\ UNCHANGED <<vKnown, vEng, vFlag, vRx, vIo, now, vExt, vBus, vSvc,
                   ssdp_monitor_counter, stp, vDev, last_ip, vEnv, cycle, bye,
                   bind_failed>>

\* do_notify, lines 270-282: self.known[usn] is read, a KeyError when the record
\* has gone since the test; the first send_it.
SchNotifyFirst ==
    /\ sch = "n_first"
    /\ alive' = do_notify_first(devices[sch_i].usn)
    /\ sch' = IF devices[sch_i].usn \in DOMAIN known THEN "n_send2" ELSE "crashed"
    /\ UNCHANGED <<vKnown, vEng, vFlag, vRx, vIo, now, vExt, vBus, vSvc, sch_i,
                   ssdp_monitor_counter, tk, stp, vDev, last_ip, vEnv, cycle, bye,
                   bind_failed>>

\* do_notify, line 283: the second send_it; do_notify returns.
SchNotifySecond ==
    /\ sch = "n_send2"
    /\ alive' = [alive EXCEPT
                    !.sends = @ \o send_it(sock_list, alive.msg),
                    !.complete = TRUE]
    /\ sch_i' = sch_i + 1
    /\ sch' = "n_check"
    /\ UNCHANGED <<vKnown, vEng, vFlag, vRx, vIo, now, vExt, vBus, vSvc,
                   ssdp_monitor_counter, tk, stp, vDev, last_ip, vEnv, cycle, bye,
                   bind_failed>>

\* What Service.notify does after the test of line 153.
SchWork ==
    \/ SchStopRunning \/ SchStopFlag \/ SchStopJoin
    \/ SchRegister \/ SchStart \/ SchNotifyPublish \/ SchNotifyCheck
    \/ SchNotifyFirst \/ SchNotifySecond

SchStep == SchTick \/ SchExit \/ SchWork

-----------------------------------------------------------------------------
(* The thread that stops the service: Setting.stop_service, started by     *)
(* run() when the bind fails (SSDP_STOP_THREAD) or called by Service.stop. *)
(* cherrypy.engine.exit() runs the 'stop' listeners: the HTTP server (25), *)
(* then SSDPPlugin.stop and Monitor.stop.                                  *)

\* Service.stop, line 183: Setting.stop_service() is called.
ExtStop ==
    /\ stp = "none"
    /\ bus # "STOPPED"
    /\ stp' = stop_service_enter
    /\ UNCHANGED <<vKnown, vEng, vFlag, vRx, vIo, now, vExt, vBus, vSvc, vSch, vDev,
                   last_ip, vEnv, vHist>>

\* stop_service, lines 226-228: the wait is over once the bus is STARTED.
stop_service_may_exit == bus = "STARTED"

\* engine.exit() begins: the bus is STOPPING, the 'stop' listener of the HTTP
\* server runs, SSDPPlugin.stop unsubscribes (lines 172-173).
StpExitBegin ==
    /\ stp = "wait"
    /\ stop_service_may_exit
    /\ bus' = "STOPPING"
    /\ http' = "down"
    /\ subscribed' = FALSE
    /\ stp' = "x_lock"
    /\ UNCHANGED <<vKnown, vEng, vFlag, vRx, vIo, now, vExt, restart_lock,
                   mon_cancel, vSvc, vSch, vDev, last_ip, vEnv, vHist>>

\* SSDPPlugin.stop, lines 174-175: the lock is taken; ssdp.stop(byebye=True),
\* lines 72-73.
StpStopRunning ==
    /\ stp = "x_lock"
    /\ restart_lock_acquire
    /\ IF running
       THEN /\ stop_running
            /\ BeginCycle(TRUE)
            /\ restart_lock' = "stp"
            /\ stp' = "x_flag"
       ELSE /\ stp' = "x_monitor"
            /\ UNCHANGED <<running, cycle, bye, restart_lock>>
    /\ UNCHANGED <<vKnown, vEng, sending_byebye, vRx, vIo, now, vExt, bus, http, subscribed,
                   mon_cancel, vSvc, vSch, vDev, last_ip, vEnv, alive, bind_failed>>

\* ssdp.stop(byebye=True), line 79.
StpStopFlag ==
    /\ stp = "x_flag"
    /\ stop_flag(TRUE)
    /\ stp' = "x_join"
    /\ UNCHANGED <<vKnown, vEng, running, vRx, vIo, now, vExt, vBus, vSvc, vSch, vDev,
                   last_ip, vEnv, vHist>>

\* ssdp.stop(byebye=True), lines 80-81; stop() returns and the lock is released.
StpStopJoin ==
    /\ stp = "x_join"
    /\ stop_join
    /\ EndCycle
    /\ restart_lock' = "free"
    /\ stp' = "x_monitor"
    /\ UNCHANGED <<vKnown, vEng, vFlag, vRx, vIo, now, vExt, bus, http, subscribed,
                   mon_cancel, vSvc, vSch, vDev, last_ip, vEnv, bye, alive,
                   bind_failed>>

\* Monitor.stop: the scheduler thread is told to stop.
StpMonitorStop ==
    /\ stp = "x_monitor"
    /\ mon_cancel' = TRUE
    /\ stp' = "x_exit"
    /\ UNCHANGED <<vKnown, vEng, vFlag, vRx, vIo, now, vExt, bus, http, subscribed,
                   restart_lock, vSvc, vSch, vDev, last_ip, vEnv, vHist>>

\* Monitor.stop joins the scheduler thread; the bus is STOPPED, then EXITING,
\* and the engine.block() of Service.run returns.
StpExit ==
    /\ stp = "x_exit"
    /\ SchEnded
    /\ bus' = "EXITING"
    /\ svc' = "stopped"
    /\ stp' = "done"
    /\ UNCHANGED <<vKnown, vEng, vFlag, vRx, vIo, now, vExt, http, subscribed, restart_lock,
                   mon_cancel, svc_i, vSch, vDev, last_ip, vEnv, vHist>>

\* The steps of a stop_service call that has begun.
StpRun ==
    \/ StpExitBegin
    \/ StpStopRunning \/ StpStopFlag \/ StpStopJoin \/ StpMonitorStop \/ StpExit

StpStep == ExtStop \/ StpRun

-----------------------------------------------------------------------------
(* The environment: the interfaces change.                                 *)

EnvIpChange ==
    /\ ip_changes < MaxIpChanges
    /\ cur_ip' = IF If2 \in cur_ip THEN cur_ip \ {If2} ELSE cur_ip \cup {If2}
    /\ ip_changes' = ip_changes + 1
    /\ UNCHANGED <<vKnown, vEng, vFlag, vRx, vIo, now, vExt, vBus, vSvc, vSch, stp, vDev,
                   last_ip, nojoin, ticks, vHist>>

-----------------------------------------------------------------------------
(* RendererPlugin and ProtocolPlugin (src/DLNA/plugin.py 16-99).  The two   *)
(* classes are the same code over self.renderer and self.protocol.  A       *)
(* handler on the bus is [topic, obj]: the bound method of obj subscribed   *)
(* to topic.  Renderer.reload and Protocol.reload are subscribed but never  *)
(* published here.                                                          *)

Kinds == {"renderer", "protocol"}

\* The objects that can be the renderer, or the protocol, of the service.
InstancesOf(k) == IF k = "renderer" THEN {"r1", "r2"} ELSE {"p1", "p2"}

AllInstances == UNION { InstancesOf(k) : k \in Kinds }

\* The plugin object of a kind, whose bound methods get_* and set_* are.
PluginOf(k) == "plugin_" \o k

\* obj.methods(): the capability methods found on the instance itself,
\* renderer.py 40-41; the implementations expose different subsets.
methods(o) ==
    CASE o = "r1" -> {"set_media_url", "set_media_stop"}
      [] o = "r2" -> {"set_media_url", "set_media_volume"}
      [] o = "p1" -> {"set_state_url", "set_state_stop"}
      [] o = "p2" -> {"set_state_url"}

\* The handlers of lines 30-32 (76-78): reload_*, get_*, set_*.
ControlSubs(k, o) ==
    { [topic |-> "reload_" \o k, obj |-> o],
      [topic |-> "get_" \o k,    obj |-> PluginOf(k)],
      [topic |-> "set_" \o k,    obj |-> PluginOf(k)] }

\* The capability handlers bound to the first instance whatever the instance.
MethodSubsFirst(o) ==
    { [topic |-> m, obj |-> o] : m \in methods(IF o \in InstancesOf("renderer")
                                               THEN "r1" ELSE "p1") }

\* The handlers of lines 33-34 (79-80): one per name of obj.methods().
MethodSubs(o) == { [topic |-> m, obj |-> o] : m \in methods(o) }

\* start() subscribing before it starts the implementation.
start_steps_subscribe_first == <<"subscribe_control", "subscribe_methods", "impl_start">>

\* start(), lines 25-34 (71-80), as the order of its steps.
start_steps == <<"impl_start", "subscribe_control", "subscribe_methods">>

\* stop() stopping the implementation before it unsubscribes.
stop_steps_stop_first == <<"impl_stop", "unsubscribe_control", "unsubscribe_methods">>

\* stop(), lines 36-45 (82-91).
stop_steps == <<"unsubscribe_control", "unsubscribe_methods", "impl_stop">>

\* set_renderer, lines 50-53 (set_protocol, 96-99): stop, assign, start.
set_steps == stop_steps \o <<"assign">> \o start_steps

steps_of(op) ==
    CASE op = "start" -> start_steps
      [] op = "stop"  -> stop_steps
      [] op = "set"   -> set_steps

\* No call has been made.
NoPluginCall ==
    [op |-> "none", k |-> "renderer", old |-> "r1", new |-> "r1", prog |-> <<>>,
     failed |-> FALSE, raised |-> FALSE]

\* No publish has been made.
NoPublish ==
    [topic |-> "", items |-> {}, pos |-> "idle", result |-> {}, began_active |-> FALSE,
     torn |-> FALSE, late |-> FALSE]

\* cherrypy.server before Service.__init__ has set its bind_addr.
NoServer ==
    [port |-> 0, pos |-> "new", by |-> "main", main |-> "none",
     interrupt |-> FALSE, attempts |-> <<>>, fell_back |-> FALSE, starts |-> 0]

\* DLNAServer.__init__ (src/server.py 12-19): Setting.temp_friendly_name is
\* the name of the server; the port test of Service.run has not been made.
NoIdentity == [name |-> "DLNA Server", tested |-> FALSE, differed |-> FALSE]

\* No reload is in progress.
NoReload == [obj |-> "", pos |-> "idle"]

\* Service.protocol has not been assigned.
NoSwap == [pos |-> "new", old |-> "", new |-> "", stops |-> 0, starts |-> 0]

\* DLNAServer.__init__ (src/server.py 12-19) and the bus before any start:
\* running is False, service is None; no Service has been made.
NoDlna ==
    [running |-> FALSE, service |-> 0, made |-> 0, st |-> "idle", mine |-> 0,
     sp |-> "idle", bus |-> "STOPPED", plugins |-> {}, wired |-> {},
     stopped |-> FALSE, casts |-> 0]

\* The state after RendererPlugin.__init__ and ProtocolPlugin.__init__.
ExtInit ==
    /\ cur = [k \in Kinds |-> IF k = "renderer" THEN "r1" ELSE "p1"]
    /\ subs = {}
    /\ impl_running = [o \in AllInstances |-> FALSE]
    /\ pt = NoPluginCall
    /\ pub = NoPublish
    /\ active = [k \in Kinds |-> FALSE]
    /\ ap = NoServer
    /\ ident = NoIdentity
    /\ rl = NoReload
    /\ held = [k \in Kinds |-> IF k = "renderer" THEN "r1" ELSE "p1"]
    /\ hs = NoSwap
    /\ dlna = NoDlna

\* History of an assignment of Service.protocol: the calls of stop() on the
\* protocol it replaces and of start() on the protocol it installs.
Counted(h, what, obj) ==
    IF h.pos = "new" THEN h
    ELSE IF what = "stops" /\ obj = h.old THEN [h EXCEPT !.stops = @ + 1]
    ELSE IF what = "starts" /\ obj = h.new THEN [h EXCEPT !.starts = @ + 1]
    ELSE h

\* start() or stop() of a plugin is called (by the bus, on its 'start' and
\* 'stop' channels), or set_renderer(new) / set_protocol(new), on the thread
\* that coordinates the service; one call at a time.
PlugCall ==
    /\ pt.prog = <<>>
    /\ \E k \in Kinds, op \in {"start", "stop", "set"}, new \in AllInstances :
          /\ new \in InstancesOf(k)
          /\ op # "set" => new = cur[k]
          /\ pt' = [op |-> op, k |-> k, old |-> cur[k], new |-> new,
                    prog |-> steps_of(op), failed |-> FALSE, raised |-> FALSE]
          /\ active' = IF op = "stop" THEN [active EXCEPT ![k] = FALSE] ELSE active
    /\ UNCHANGED <<vCore, ap, vNew, cur, subs, impl_running, pub>>

\* The call is over when its last step has been taken.
Done(t) == IF t.prog = <<>> /\ ~t.failed
           THEN [active EXCEPT ![t.k] = t.op # "stop"] ELSE active

\* An exception of the implementation's start() is not caught by start() nor
\* by set_renderer: it ends the call and goes to the caller.
on_start_error_absorbed(t) == [t EXCEPT !.failed = TRUE, !.prog = Tail(@)]

on_start_error(t) == [t EXCEPT !.failed = TRUE, !.raised = TRUE, !.prog = <<>>]

\* self.renderer.start(), line 29 (75): it returns, or it raises.
PlugImplStart ==
    /\ pt.prog # <<>>
    /\ Head(pt.prog) = "impl_start"
    /\ \/ /\ impl_running' = [impl_running EXCEPT ![cur[pt.k]] = TRUE]
          /\ pt' = [pt EXCEPT !.prog = Tail(@)]
          /\ active' = Done(pt')
          /\ hs' = Counted(hs, "starts", cur[pt.k])
       \/ /\ pt' = on_start_error(pt)
          /\ active' = [active EXCEPT ![pt.k] = FALSE]
          /\ UNCHANGED <<impl_running, hs>>
    /\ UNCHANGED <<vCore, ap, ident, rl, held, dlna, cur, subs, pub>>

\* Lines 30-32 (76-78).
PlugSubscribeControl ==
    /\ pt.prog # <<>>
    /\ Head(pt.prog) = "subscribe_control"
    /\ subs' = subs \cup ControlSubs(pt.k, cur[pt.k])
    /\ pt' = [pt EXCEPT !.prog = Tail(@)]
    /\ active' = Done(pt')
    /\ UNCHANGED <<vCore, ap, vNew, cur, impl_running, pub>>

\* Lines 33-34 (79-80).
PlugSubscribeMethods ==
    /\ pt.prog # <<>>
    /\ Head(pt.prog) = "subscribe_methods"
    /\ subs' = subs \cup MethodSubs(cur[pt.k])
    /\ pt' = [pt EXCEPT !.prog = Tail(@)]
    /\ active' = Done(pt')
    /\ UNCHANGED <<vCore, ap, vNew, cur, impl_running, pub>>

\* Lines 40-42 (86-88).
PlugUnsubscribeControl ==
    /\ pt.prog # <<>>
    /\ Head(pt.prog) = "unsubscribe_control"
    /\ subs' = subs \ ControlSubs(pt.k, cur[pt.k])
    /\ pt' = [pt EXCEPT !.prog = Tail(@)]
    /\ active' = Done(pt')
    /\ UNCHANGED <<vCore, ap, vNew, cur, impl_running, pub>>

\* Lines 43-44 (89-90).
PlugUnsubscribeMethods ==
    /\ pt.prog # <<>>
    /\ Head(pt.prog) = "unsubscribe_methods"
    /\ subs' = subs \ MethodSubs(cur[pt.k])
    /\ pt' = [pt EXCEPT !.prog = Tail(@)]
    /\ active' = Done(pt')
    /\ UNCHANGED <<vCore, ap, vNew, cur, impl_running, pub>>

\* self.renderer.stop(), line 45 (91): running = False (renderer.py 31-36; the
\* 'renderer_av_stop' it publishes has no listener here).
PlugImplStop ==
    /\ pt.prog # <<>>
    /\ Head(pt.prog) = "impl_stop"
    /\ impl_running' = [impl_running EXCEPT ![cur[pt.k]] = FALSE]
    /\ pt' = [pt EXCEPT !.prog = Tail(@)]
    /\ active' = Done(pt')
    /\ hs' = Counted(hs, "stops", cur[pt.k])
    /\ UNCHANGED <<vCore, ap, ident, rl, held, dlna, cur, subs, pub>>

\* self.renderer = renderer, line 52 (98).
PlugAssign ==
    /\ pt.prog # <<>>
    /\ Head(pt.prog) = "assign"
    /\ cur' = [cur EXCEPT ![pt.k] = pt.new]
    /\ pt' = [pt EXCEPT !.prog = Tail(@)]
    /\ UNCHANGED <<vCore, ap, vNew, subs, impl_running, pub, active>>

PlugStep ==
    \/ PlugCall \/ PlugImplStart \/ PlugSubscribeControl \/ PlugSubscribeMethods
    \/ PlugUnsubscribeControl \/ PlugUnsubscribeMethods \/ PlugImplStop
    \/ PlugAssign

\* The topics another thread publishes: a query and a capability event for
\* each kind.
PubTopics == {"get_renderer", "get_protocol", "set_media_url", "set_state_url"}

\* The kind a topic belongs to.
KindOf(topic) ==
    IF topic \in {"get_renderer", "set_media_url"} THEN "renderer" ELSE "protocol"

\* bus.publish(topic) begins on another thread: the listeners of the topic
\* are copied into the list publish() will go through.
PubBegin ==
    /\ pub.pos \in {"idle", "done"}
    /\ \E topic \in PubTopics :
          pub' = [topic |-> topic, items |-> { h \in subs : h.topic = topic },
                  pos |-> "calling", result |-> {},
                  began_active |-> active[KindOf(topic)],
                  torn |-> FALSE, late |-> FALSE]
    /\ UNCHANGED <<vCore, ap, vNew, cur, subs, impl_running, pt, active>>

\* publish() calls the next listener of its list: get_renderer / get_protocol
\* return the current reference, a capability method runs on its instance.
PubCall ==
    /\ pub.pos = "calling"
    /\ pub.items # {}
    /\ \E h \in pub.items :
          LET k == KindOf(pub.topic)
          IN  pub' = [pub EXCEPT
                  !.items  = @ \ {h},
                  !.result = IF h.obj = PluginOf(k) THEN @ \cup {cur[k]} ELSE @,
                  !.torn   = @ \/ (h.obj = PluginOf(k)
                                    /\ ~(MethodSubs(cur[k]) \subseteq subs)),
                  !.late   = @ \/ (/\ pt.op = "set"
                                    /\ h.obj = pt.old
                                    /\ ~impl_running[h.obj])]
    /\ UNCHANGED <<vCore, ap, vNew, cur, subs, impl_running, pt, active>>

\* publish() returns the list of results.
PubReturn ==
    /\ pub.pos = "calling"
    /\ pub.items = {}
    /\ pub' = [pub EXCEPT !.pos = "done"]
    /\ UNCHANGED <<vCore, ap, vNew, cur, subs, impl_running, pt, active>>

PubStep == PubBegin \/ PubCall \/ PubReturn

\* The bus dispatches reload_renderer (reload_protocol) on another thread to
\* the handler subscribed at line 30 (76): Renderer.reload, renderer.py 36-38,
\* begins with stop(): running = False.
ReloadStop ==
    /\ rl.pos = "idle"
    /\ \E k \in Kinds, o \in AllInstances :
          /\ [topic |-> "reload_" \o k, obj |-> o] \in subs
          /\ impl_running' = [impl_running EXCEPT ![o] = FALSE]
          /\ rl' = [obj |-> o, pos |-> "stopped"]
    /\ UNCHANGED <<vCore, ap, ident, held, hs, dlna, cur, subs, pt, pub, active>>

\* Renderer.reload ends with start(): running = True.
ReloadStart ==
    /\ rl.pos = "stopped"
    /\ impl_running' = [impl_running EXCEPT ![rl.obj] = TRUE]
    /\ rl' = [rl EXCEPT !.pos = "idle"]
    /\ UNCHANGED <<vCore, ap, ident, held, hs, dlna, cur, subs, pt, pub, active>>

ReloadStep == ReloadStop \/ ReloadStart

\* The steps of the call in progress.
PlugRun ==
    \/ PlugImplStart \/ PlugSubscribeControl \/ PlugSubscribeMethods
    \/ PlugUnsubscribeControl \/ PlugUnsubscribeMethods \/ PlugImplStop
    \/ PlugAssign

\* engine.start() calls the start() of a plugin.
BusStart == PlugCall /\ pt'.op = "start" /\ UNCHANGED held

\* The set_renderer topic is published with a renderer: the bus calls
\* RendererPlugin.set_renderer, subscribed at line 32.
BusSetRenderer ==
    /\ [topic |-> "set_renderer", obj |-> PluginOf("renderer")] \in subs
    /\ PlugCall
    /\ pt'.op = "set"
    /\ pt'.k = "renderer"

\* Service.renderer = value, server.py 130-133: self._renderer = value, then
\* self.renderer_plugin.set_renderer(self._renderer) is called.
SvcSetRenderer ==
    /\ pt.prog = <<>>
    /\ \E new \in InstancesOf("renderer") :
          /\ held' = [held EXCEPT !["renderer"] = new]
          /\ pt' = [op |-> "set", k |-> "renderer", old |-> cur["renderer"],
                    new |-> new, prog |-> steps_of("set"), failed |-> FALSE,
                    raised |-> FALSE]
    /\ UNCHANGED <<vCore, ap, ident, rl, hs, dlna, cur, subs, impl_running, pub,
                   active>>

\* Service.protocol = value, server.py 139-140: self.stop(), which calls
\* Setting.stop_service() (line 183).
HsStop ==
    /\ hs.pos = "new"
    /\ stp = "none"
    /\ \E new \in InstancesOf("protocol") \ {cur["protocol"]} :
          hs' = [NoSwap EXCEPT !.pos = "stopping", !.old = cur["protocol"],
                               !.new = new]
    /\ stp' = stop_service_enter
    /\ UNCHANGED <<vKnown, vEng, vFlag, vRx, vIo, now, vPlug, ap, ident, rl, held,
                   dlna, vBus, vSvc, vSch, vDev, last_ip, vEnv, vHist>>

\* The 'stop' listeners of engine.exit() that are plugins of this module:
\* ProtocolPlugin.stop, then RendererPlugin.stop, are called.
HsBusStop ==
    /\ pt.prog = <<>>
    /\ \/ hs.pos = "stopping" /\ stp \in {"done", "none"}
       \/ hs.pos = "stop_protocol"
    /\ LET k == IF hs.pos = "stopping" THEN "protocol" ELSE "renderer"
       IN  /\ pt' = [op |-> "stop", k |-> k, old |-> cur[k], new |-> cur[k],
                     prog |-> steps_of("stop"), failed |-> FALSE,
                     raised |-> FALSE]
           /\ active' = [active EXCEPT ![k] = FALSE]
    /\ hs' = [hs EXCEPT !.pos = IF @ = "stopping" THEN "stop_protocol"
                                ELSE "stop_renderer"]
    /\ UNCHANGED <<vCore, ap, ident, rl, held, dlna, cur, subs, impl_running, pub>>

\* Lines 141-142: self._protocol = value, then
\* self.protocol_plugin.set_protocol(self._protocol) is called.
HsSet ==
    /\ pt.prog = <<>>
    /\ hs.pos = "stop_renderer"
    /\ held' = [held EXCEPT !["protocol"] = hs.new]
    /\ pt' = [op |-> "set", k |-> "protocol", old |-> cur["protocol"],
              new |-> hs.new, prog |-> steps_of("set"), failed |-> FALSE,
              raised |-> FALSE]
    /\ hs' = [hs EXCEPT !.pos = "set"]
    /\ UNCHANGED <<vCore, ap, ident, rl, dlna, cur, subs, impl_running, pub, active>>

\* Lines 143-144: the handler of the new protocol is mounted and reloaded;
\* the assignment is over.
HsDone ==
    /\ pt.prog = <<>>
    /\ hs.pos = "set"
    /\ ~pt.raised
    /\ hs' = [hs EXCEPT !.pos = "done"]
    /\ UNCHANGED <<vCore, vPlug, ap, ident, rl, held, dlna>>

HsStep == HsStop \/ HsBusStop \/ HsSet \/ HsDone

-----------------------------------------------------------------------------
(* DLNAServer (src/server.py): start() runs on a thread the GUI makes for   *)
(* it (src/app.py 919, 974) and blocks in Service.run; stop() runs on the   *)
(* thread of the GUI.  cherrypy.engine is one bus for every Service.        *)

\* DLNAServer.start is called, lines 48-52: it returns at once when running
\* is set.
DlStartCall ==
    /\ dlna.st = "idle"
    /\ dlna' = [dlna EXCEPT !.stopped = FALSE,
                            !.st = IF dlna.running THEN "idle" ELSE "checked"]
    /\ UNCHANGED <<vCore, vPlug, ap, ident, rl, held, hs>>

\* Lines 53-113: a renderer and a Service are made; Service.__init__
\* (DLNA/server.py 86-96) subscribes its plugins and its Monitor to the bus.
DlCreate ==
    /\ dlna.st = "checked"
    /\ dlna.made < MaxServices
    /\ dlna' = [dlna EXCEPT !.made = @ + 1, !.mine = dlna.made + 1,
                            !.service = dlna.made + 1,
                            !.plugins = @ \cup {dlna.made + 1},
                            !.st = "created"]
    /\ UNCHANGED <<vCore, vPlug, ap, ident, rl, held, hs>>

\* Line 114: self.running = True.
DlFlag ==
    /\ dlna.st = "created"
    /\ dlna' = [dlna EXCEPT !.running = TRUE, !.st = "flagged"]
    /\ UNCHANGED <<vCore, vPlug, ap, ident, rl, held, hs>>

\* Line 117, Service.run: cherrypy.engine.start() begins.
DlEngineStart ==
    /\ dlna.st = "flagged"
    /\ dlna' = [dlna EXCEPT !.bus = "STARTING", !.st = "starting"]
    /\ UNCHANGED <<vCore, vPlug, ap, ident, rl, held, hs>>

\* engine.start() has called the start() of every plugin subscribed to the
\* bus; the bus is STARTED and Service.run blocks.
DlEngineStarted ==
    /\ dlna.st = "starting"
    /\ dlna' = [dlna EXCEPT !.bus = "STARTED",
                            !.wired = dlna.plugins,
                            !.casts = 0, !.st = "serving"]
    /\ UNCHANGED <<vCore, vPlug, ap, ident, rl, held, hs>>

\* engine.block() returns once the bus is EXITING; Service.run and
\* DLNAServer.start return.
DlRunReturn ==
    /\ dlna.st = "serving"
    /\ dlna.bus = "EXITING"
    /\ dlna' = [dlna EXCEPT !.st = "idle"]
    /\ UNCHANGED <<vCore, vPlug, ap, ident, rl, held, hs>>

\* What stop() does when it finds running not set: nothing, lines 126-128.
stop_entry(flag) == IF flag THEN "stopping" ELSE "idle"

\* DLNAServer.stop is called, lines 124-128.
DlStopCall ==
    /\ dlna.sp = "idle"
    /\ dlna' = [dlna EXCEPT !.sp = stop_entry(dlna.running),
                            !.stopped = @ \/ stop_entry(dlna.running) = "idle"]
    /\ UNCHANGED <<vCore, vPlug, ap, ident, rl, held, hs>>

\* Lines 130-131, Service.stop, Setting.stop_service (utils.py 214-229): it
\* returns at once on a bus that is STOPPED, STOPPING or EXITING, waits for a
\* bus that is STARTING, and calls engine.exit() on a STARTED one: every
\* started plugin is stopped.
DlStopService ==
    /\ dlna.sp = "stopping"
    /\ dlna.bus # "STARTING"
    /\ dlna' = IF dlna.bus = "STARTED"
               THEN [dlna EXCEPT !.bus = "EXITING", !.wired = {}, !.sp = "after"]
               ELSE [dlna EXCEPT !.sp = "after"]
    /\ UNCHANGED <<vCore, vPlug, ap, ident, rl, held, hs>>

\* Lines 132-134: running = False, service = None; stop() returns.
DlStopEnd ==
    /\ dlna.sp = "after"
    /\ dlna' = [dlna EXCEPT !.running = FALSE, !.service = 0, !.stopped = TRUE,
                            !.sp = "idle"]
    /\ UNCHANGED <<vCore, vPlug, ap, ident, rl, held, hs>>

\* A set_media_url event is published on the started bus: the handler of
\* every started renderer runs (src/server.py 62-65) and each calls
\* _notify_cast, which calls every callback once (26-32).
DlCast ==
    /\ dlna.bus = "STARTED"
    /\ dlna' = [dlna EXCEPT !.casts = Cardinality(dlna.wired)]
    /\ UNCHANGED <<vCore, vPlug, ap, ident, rl, held, hs>>

DlStep ==
    \/ DlStartCall \/ DlCreate \/ DlFlag \/ DlEngineStart \/ DlEngineStarted
    \/ DlRunReturn \/ DlStopCall \/ DlStopService \/ DlStopEnd \/ DlCast

-----------------------------------------------------------------------------
(* AutoPortServer (src/DLNA/server.py 20-73): Server.start checks that the  *)
(* port is free (portend.free), starts the HTTP thread, which binds, and    *)
(* waits for it; auto_change_port wraps start and _start_http_thread.       *)

\* The ApplicationPort settings Setting.get_port() can return.
PreferredPorts == {DEFAULT_PORT, 8080}

\* Every portend.Timeout answered by the fallback.
may_fall_back_always(port) == TRUE

\* auto_change_port, lines 28-30: the fallback is taken unless bind_port == 0.
may_fall_back(port) == port # 0

\* The exception kept to itself: the call returns as if the server were up.
reraise_swallowed(a, by) ==
    [a EXCEPT !.pos = "serving", !.interrupt = FALSE,
              !.main = IF by = "main" THEN "done" ELSE @]

\* `raise e`, line 30, and an error auto_change_port does not catch: the
\* error leaves the wrapped call. Raised in start() on the caller's thread it
\* reaches the caller at once; raised on the HTTP thread it ends that thread
\* and reaches the caller through self.interrupt, which wait() raises.
reraise(a, by) ==
    [a EXCEPT !.pos = "raised", !.main = IF by = "main" THEN "raised" ELSE @]

\* The outcome of the bind attempt in progress is known.
Outcome(a, what) == [a EXCEPT !.attempts[Len(a.attempts)].outcome = what]

\* A portend.Timeout reaches the wrapper, lines 25-34: the fallback calls
\* self.start() on the thread the wrapper runs on.
auto_change_port(a, by) ==
    IF may_fall_back(a.port)
    THEN [a EXCEPT !.port = 0, !.pos = "start", !.by = by, !.fell_back = TRUE]
    ELSE reraise(a, by)

\* Service.__init__, line 83: bind_addr = ('0.0.0.0', Setting.get_port());
\* the bus then calls start() on the caller's thread.
ApConfigure ==
    /\ ap.pos = "new"
    /\ \E port \in PreferredPorts :
          ap' = [ap EXCEPT !.port = port, !.pos = "start", !.main = "call"]
    /\ UNCHANGED <<vCore, vPlug, vNew>>

\* AutoPortServer.start, lines 46-48: Server.start clears self.interrupt and
\* begins an attempt on the port of bind_addr; portend.free finds the port
\* free and the HTTP thread is started, or it raises portend.Timeout because
\* something listens there (portend.free probes by connecting, and nothing
\* listens on port 0).
ApStart ==
    /\ ap.pos = "start"
    /\ LET a == [ap EXCEPT !.interrupt = FALSE,
                           !.attempts = Append(@, [port |-> ap.port,
                                                   outcome |-> "pending"])]
       IN  \/ ap' = [a EXCEPT !.pos = "thread",
                              !.main = IF ap.by = "main" THEN "wait" ELSE @]
           \/ /\ ap.port # 0
              /\ ap' = auto_change_port(Outcome(a, "timeout"), ap.by)
    /\ UNCHANGED <<vCore, vPlug, vNew>>

\* _start_http_thread, lines 50-73: httpserver.start() binds and serves, or
\* fails with WinError 10013 (self.interrupt is set, line 64, and
\* portend.Timeout raised, line 67), or fails with another error
\* (self.interrupt is set, the bus exits and the error is raised, 69-73).
ApHttpThread ==
    /\ ap.pos = "thread"
    /\ \/ ap' = [Outcome(ap, "bound") EXCEPT !.pos = "serving"]
       \/ ap' = auto_change_port(
                    [Outcome(ap, "timeout") EXCEPT !.interrupt = TRUE], "http")
       \/ ap' = reraise([Outcome(ap, "error") EXCEPT !.interrupt = TRUE], "http")
    /\ UNCHANGED <<vCore, vPlug, vNew>>

\* ServerAdapter.wait on the caller's thread: self.interrupt is raised, or the
\* server is ready and start() returns.
ApWait ==
    /\ ap.main = "wait"
    /\ \/ /\ ap.interrupt
          /\ ap' = [ap EXCEPT !.main = "raised"]
       \/ /\ ~ap.interrupt
          /\ ap.pos = "serving"
          /\ ap' = [ap EXCEPT !.main = "done"]
    /\ UNCHANGED <<vCore, vPlug, vNew>>

\* DLNAServer.restart (src/server.py 42-46): stop(), then start() builds a
\* new Service, whose __init__ sets bind_addr from the setting again.
ApRestart ==
    /\ ap.pos \in {"serving", "raised"}
    /\ ap.main \in {"done", "raised"}
    /\ ap.starts < MaxRestarts
    /\ ap' = [NoServer EXCEPT !.starts = ap.starts + 1]
    /\ UNCHANGED <<vCore, vPlug, vNew>>

ApStep == ApConfigure \/ ApStart \/ ApHttpThread \/ ApWait \/ ApRestart

-----------------------------------------------------------------------------
(* The life-cycle specification.                                           *)

\* The state after Service.__init__ on a host with the interfaces ips, of which
\* those of the addresses nj refuse the multicast join.
InitOn(ips, nj) ==
    /\ known = NoRecords
    /\ ip_list = <<>>
    /\ sock_list = <<>>
    /\ sock = "None"
    /\ running = FALSE
    /\ sending_byebye = TRUE
    /\ rx = "none"
    /\ rx_i = 0
    /\ rx_todo = {}
    /\ dgram = NoDatagram
    /\ replies = <<>>
    /\ now = 0
    /\ bus = "STOPPED"
    /\ http = "down"
    /\ subscribed = FALSE
    /\ restart_lock = "free"
    /\ mon_cancel = FALSE
    /\ svc = "init"
    /\ svc_i = 0
    /\ sch = "off"
    /\ sch_i = 0
    /\ ssdp_monitor_counter = 0
    /\ stp = "none"
    /\ usn_setting = "ABC"
    /\ port_differs = FALSE
    /\ devices = build_device_info
    /\ last_ip = NoneIp
    /\ cur_ip = ips
    /\ nojoin = nj
    /\ ip_changes = 0
    /\ ticks = 0
    /\ cycle = NoCycle
    /\ bye = <<>>
    /\ alive = NoAlive
    /\ bind_failed = FALSE
    /\ ExtInit
    /\ tk = NoTick
    /\ call = NoCall

Init == \E nj \in { {}, {If2.ip} } : InitOn(LifeInterfaces, nj)

Next == RxStep \/ SvcStep \/ SchStep \/ StpStep \/ EnvIpChange

Spec == Init /\ [][Next]_vars

-----------------------------------------------------------------------------
(* The discovery specification: a started engine whose receive loop is     *)
(* running, any registry contents, any datagram from any requester.        *)

DiscUSNs == {"", "uuid:ABC::upnp:rootdevice", "uuid:ABC"}
DiscSTs  == {"upnp:rootdevice", "uuid:ABC"}

\* The interface lists of the discovery specification: up to two interfaces.
DiscIpLists == { l \in IpLists : Len(l) <= 2 }

\* sock_list as run() builds it from ip_list.
RECURSIVE SockListOf(_, _)
SockListOf(ipl, i) ==
    IF i = 0 THEN <<>> ELSE join(SockListOf(ipl, i - 1), ipl[i])

InitDisc ==
    /\ known = NoRecords
    /\ ip_list \in DiscIpLists
    /\ nojoin = {}
    /\ sock_list = SockListOf(ip_list, Len(ip_list))
    /\ sock = "bound"
    /\ running = TRUE
    /\ sending_byebye = TRUE
    /\ rx = "recv"
    /\ rx_i = Len(ip_list) + 1
    /\ rx_todo = {}
    /\ dgram = NoDatagram
    /\ replies = <<>>
    /\ now = 0
    /\ bus = "STARTED"
    /\ http = "serving"
    /\ subscribed = TRUE
    /\ restart_lock = "free"
    /\ mon_cancel = FALSE
    /\ svc = "block"
    /\ svc_i = 0
    /\ sch = "sleep"
    /\ sch_i = 0
    /\ ssdp_monitor_counter = 0
    /\ stp = "none"
    /\ usn_setting = "ABC"
    /\ port_differs = FALSE
    /\ devices = build_device_info
    /\ last_ip = Range(ip_list)
    /\ cur_ip = Range(ip_list)
    /\ ip_changes = 0
    /\ ticks = 0
    /\ cycle = NoCycle
    /\ bye = <<>>
    /\ alive = NoAlive
    /\ bind_failed = FALSE
    /\ ExtInit
    /\ tk = NoTick
    /\ call = NoCall

\* SSDPServer.register(usn, st, location) with the default server and
\* cache_control.  The history of the last datagram and of the last call is
\* dropped: it is kept only while the registry is as the handler saw it.
ApiRegister ==
    /\ \E usn \in DiscUSNs, st \in DiscSTs :
          known' = register(known, usn, st, Loc80, SERVER_ID, "max-age=1800")
    /\ dgram' = NoDatagram
    /\ replies' = <<>>
    /\ call' = NoCall
    /\ UNCHANGED <<vEng, vFlag, vRx, now, vExt, vBus, vSvc, vSch, stp, vDev, last_ip,
                   vEnv, vHist>>

\* SSDPServer.unregister(usn) of a registered USN.
ApiUnregister ==
    /\ \E usn \in DOMAIN known : known' = unregister(known, usn)
    /\ dgram' = NoDatagram
    /\ replies' = <<>>
    /\ call' = NoCall
    /\ UNCHANGED <<vEng, vFlag, vRx, now, vExt, vBus, vSvc, vSch, stp, vDev, last_ip,
                   vEnv, vHist>>

\* recvfrom returns a datagram from a requester; datagram_received handles it.
DiscDatagram ==
    /\ rx = "recv"
    /\ \E data \in Datagrams, host \in Hosts : Handle(data, host)
    /\ UNCHANGED <<known, call, ip_list, sock_list, sock, running, sending_byebye, rx_i,
                   rx_todo, now, vExt, stp, last_ip,
                   vBus, vSvc, vSch, vDev, vEnv, vHist>>

\* A second passes.
ClockTick ==
    /\ now < MaxClock
    /\ now' = now + 1
    /\ UNCHANGED <<vExt, vKnown, vEng, vFlag, vRx, vIo, vBus, vSvc, vSch, stp, vDev,
                   last_ip, vEnv, vHist>>

\* do_notify(usn) as a whole, lines 263-285, on the running engine.
do_notify(usn) ==
    IF usn \notin DOMAIN known THEN NoAlive
    ELSE [usn |-> usn, msg |-> AliveMsg(usn),
          sends |-> send_it(sock_list, AliveMsg(usn))
                        \o send_it(sock_list, AliveMsg(usn)),
          complete |-> TRUE]

\* SSDPServer.do_notify(usn) for any USN.
ApiNotify ==
    /\ \E usn \in DiscUSNs :
          /\ alive' = do_notify(usn)
          /\ call' = [NoCall EXCEPT !.inst = 1, !.op = "do_notify", !.usn = usn,
                                    !.before = known]
    /\ bye' = <<>>
    /\ UNCHANGED <<known, vEng, vFlag, vRx, vIo, now, vExt, vBus, vSvc, vSch, stp, vDev,
                   last_ip, vEnv, cycle, bind_failed>>

\* SSDPServer.do_byebye(usn) for any USN.
ApiByebye ==
    /\ \E usn \in DiscUSNs :
          /\ bye' = do_byebye(usn)
          /\ call' = [NoCall EXCEPT !.inst = 1, !.op = "do_byebye", !.usn = usn,
                                    !.before = known]
    /\ alive' = NoAlive
    /\ UNCHANGED <<known, vEng, vFlag, vRx, vIo, now, vExt, vBus, vSvc, vSch, stp, vDev,
                   last_ip, vEnv, cycle, bind_failed>>

NextDisc == ApiRegister \/ ApiUnregister \/ DiscDatagram \/ RxLoop \/ ClockTick

SpecDisc == InitDisc /\ [][NextDisc]_vars

-----------------------------------------------------------------------------
(* Properties of discovery, under SpecDisc.                                *)

\* datagram_received has just returned or raised.
Handled == rx \in {"loop", "crashed"} /\ dgram # NoDatagram

\* The datagram is an M-SEARCH * that reaches discovery_request.
IsSearch(data) ==
    /\ data.decodable
    /\ Len(data.cmd) >= 2
    /\ data.cmd[1] = "M-SEARCH"
    /\ data.cmd[2] = "*"
    /\ \A i \in DOMAIN data.hdrs : data.hdrs[i].colon

\* The ST the request asks for.
RequestedST(data) ==
    IF \E i \in DOMAIN data.hdrs : data.hdrs[i].name \in {"ST", "St", "st"}
    THEN LET i == CHOOSE j \in DOMAIN data.hdrs :
                     data.hdrs[j].name \in {"ST", "St", "st"}
         IN  data.hdrs[i].value
    ELSE "ssdp:all"

\* The MX header of the request is absent or a non-negative integer.
UsableMX(data) ==
    \A i \in DOMAIN data.hdrs :
        data.hdrs[i].name = "MX" => data.hdrs[i].value \in {"0", "1", "2", "3"}

\* The largest delay the request allows.
RequestedMX(data) ==
    IF \E i \in DOMAIN data.hdrs : data.hdrs[i].name = "MX"
    THEN LET i == CHOOSE j \in DOMAIN data.hdrs : data.hdrs[j].name = "MX"
         IN  CASE data.hdrs[i].value = "0" -> 0
               [] data.hdrs[i].value = "1" -> 1
               [] data.hdrs[i].value = "2" -> 2
               [] OTHER -> 3
    ELSE 3

\* The record's ST is the one asked for.
Wanted(u, data) ==
    RequestedST(data) = "ssdp:all" \/ known[u]["ST"] = RequestedST(data)

\* The interface and the requester are on one subnet under the interface's mask.
SameSubnet(ifc, host) ==
    \A i \in 1..4 : BitAnd(ifc.ip[i], ifc.mask[i]) = BitAnd(host[i], ifc.mask[i])

\* The number of replies citing a USN.
RepliesFor(u) == Cardinality({ i \in DOMAIN replies : replies[i].USN = u })

\* C1 as stated: for an M-SEARCH handled by discovery_request, every record whose
\* ST is the requested one (every record for ssdp:all or no ST header) gets
\* exactly one reply, every reply cites a registered USN, and the other records
\* get none.
C1_OneReplyPerMatch ==
    (Handled /\ IsSearch(dgram.data)) =>
        /\ \A u \in DOMAIN known :
              RepliesFor(u) = IF Wanted(u, dgram.data) THEN 1 ELSE 0
        /\ \A i \in DOMAIN replies : replies[i].USN \in DOMAIN known

\* C1 amended: a record gets exactly one reply when its ST is the requested one,
\* its USN is not empty, the MX header is absent or a non-negative integer and
\* some interface of ip_list is on the requester's subnet; else it gets none.
\* Every reply cites a registered USN and goes to the requester.
C1_OneReplyPerReachableMatch ==
    (Handled /\ IsSearch(dgram.data)) =>
        /\ \A u \in DOMAIN known :
              RepliesFor(u) =
                 IF /\ Wanted(u, dgram.data)
                    /\ u # ""
                    /\ UsableMX(dgram.data)
                    /\ \E i \in DOMAIN ip_list : SameSubnet(ip_list[i], dgram.host)
                 THEN 1 ELSE 0
        /\ \A i \in DOMAIN replies :
              /\ replies[i].USN \in DOMAIN known
              /\ replies[i].dest = dgram.host

\* An ssdp:all search was answered for two records.
C1_Witness ==
    /\ Handled
    /\ IsSearch(dgram.data)
    /\ RequestedST(dgram.data) = "ssdp:all"
    /\ Len(replies) = 2
    /\ Cardinality(DOMAIN known) = 3

\* C2: the address in LOCATION is the ip of an interface of ip_list that is on
\* the requester's subnet, both sides under that interface's mask; when no
\* interface is, nothing is sent.
C2_LocationOnRequesterSubnet ==
    Handled =>
        /\ \A i \in DOMAIN replies :
              \E j \in DOMAIN ip_list :
                 /\ SameSubnet(ip_list[j], dgram.host)
                 /\ replies[i].via = ip_list[j].ip
                 /\ replies[i].LOCATION
                       = known[replies[i].USN]["LOCATION"].pre
                            \o IpStr(ip_list[j].ip)
                            \o known[replies[i].USN]["LOCATION"].post
        /\ (\A j \in DOMAIN ip_list : ~SameSubnet(ip_list[j], dgram.host))
              => replies = <<>>

\* The scenario of the specification: interface 192.168.1.10/255.255.255.0,
\* requester 192.168.1.50.
C2_Witness ==
    /\ Handled
    /\ ip_list = <<If1>>
    /\ dgram.host = <<192, 168, 1, 50>>
    /\ Len(replies) = 1
    /\ replies[1].USN = "uuid:ABC::upnp:rootdevice"
    /\ replies[1].LOCATION = "http://192.168.1.10:80/d.xml"

\* C3 as stated: a reply leaves only once the delay drawn for it, in 0..MX, has
\* passed since it was drawn.
C3_ReplyDelayed ==
    Handled =>
        \A i \in DOMAIN replies :
            /\ replies[i].delay \in 0..RequestedMX(dgram.data)
            /\ replies[i].sent_at - replies[i].chosen_at >= replies[i].delay

\* C9 as stated: a malformed datagram is dropped: nothing is sent for it and the
\* receive loop goes on.
C9_MalformedDropped ==
    (Handled /\ dgram.data \in MalformedDatagrams) =>
        /\ replies = <<>>
        /\ rx = "loop"

-----------------------------------------------------------------------------
(* Properties of the life cycle, under Spec.                               *)

\* The byebye notifications sent for a USN through the Sock of an address.
ByebyesFor(u, ip) ==
    { i \in DOMAIN bye : bye[i].msg.USN = u /\ bye[i].ip = ip }

\* C4 as stated: stop(byebye=True) on a running engine has, when it returns,
\* sent one byebye for every USN registered at the call through every Sock, each
\* of them before the receive socket was closed.
C4_ByebyePerUSN ==
    (cycle.active /\ cycle.byebye /\ cycle.returned) =>
        \A u \in cycle.at_call : \A s \in Range(sock_list) :
            /\ Cardinality(ByebyesFor(u, s.ip)) = 1
            /\ \A i \in ByebyesFor(u, s.ip) : bye[i].msg.sock # "None"

\* C5 as stated: a stop cycle begun with stop(byebye=False) sends no byebye.
C5_NoByebyeWhenDisabled ==
    (cycle.active /\ ~cycle.byebye) => bye = <<>>

\* The addresses the engine serves: those of ip_list whose join succeeded.
Served == { ifc.ip : ifc \in Range(ip_list) } \ nojoin

\* C6 as stated: a completed do_notify of a registered device has sent its
\* message twice through every interface the engine serves.
C6_AliveTwicePerInterface ==
    alive.complete =>
        \A ip \in Served :
            Cardinality({ i \in DOMAIN alive.sends : alive.sends[i].ip = ip }) = 2

\* C8 as stated: once stop() has returned, the receive socket and every Sock of
\* sock_list are closed.
C8_SocketsClosedAfterStop ==
    (cycle.active /\ cycle.returned) =>
        /\ sock = "None"
        /\ \A s \in Range(sock_list) : ~s.open

\* C10 as stated: once a bind of port 1900 has failed, the HTTP listener is not
\* brought up.
C10_NoHttpAfterBindFailure ==
    [][(bind_failed /\ http = "down") => http' = "down"]_vars

\* Every thread that can take a step takes one in the end; nothing makes the
\* owner call Service.stop.
\* A host that starts with one interface, every join succeeding.
InitOne == InitOn({If1}, {})

\* The threads of the program on a host whose interfaces stay as they are.
NextThreads == RxStep \/ SvcStep \/ SchStep \/ StpStep

FairSpec ==
    /\ InitOne
    /\ [][NextThreads]_vars
    /\ WF_vars(RxStep)
    /\ WF_vars(SvcStep)
    /\ WF_vars(SchStep)
    /\ WF_vars(StpRun)

\* C7: stop() on a running engine returns, and when it has returned the receive
\* thread has ended: it is no longer in its loop nor in shutdown().
C7_StopJoinsReceiveThread ==
    /\ [](cycle.returned => Terminated)
    /\ (cycle.active /\ ~cycle.returned) ~> cycle.returned

\* A stop() has returned after the receive thread went through shutdown().
C7_Witness ==
    /\ cycle.active
    /\ cycle.returned
    /\ rx = "done"
    /\ sock = "None"
    /\ bye # <<>>

\* The whole service is down: the bus has exited, the HTTP listener is down, the
\* scheduler thread and the receive thread have ended.
Aborted ==
    /\ bus = "EXITING"
    /\ http = "down"
    /\ SchEnded
    /\ svc = "stopped"
    /\ Terminated

\* C11: once a bind of port 1900 has failed, the service is aborted in the end,
\* whatever the state of the bus was at the failure, and it stays so.
C11_BindFailureAborts == bind_failed ~> []Aborted


-----------------------------------------------------------------------------
(* The scheduler specification: a service that is started and not stopped, *)
(* looked at for more than twenty ticks; no datagram arrives.              *)

SchedTick == Tick(MaxSchedTicks)

\* The receive thread when no datagram arrives.
RxQuiet ==
    \/ RxOpen \/ RxReset \/ RxJoin \/ RxBind \/ RxLoop \/ RxTimeout
    \/ RxBye \/ RxUnregister \/ RxClose

\* Service.run has reached engine.block() on a host with the interface If1: the
\* six records are registered, the receive thread has just been started, the
\* Monitor sleeps before its first tick.
StartedService ==
    /\ usn_setting = "ABC"
    /\ port_differs = FALSE
    /\ known = plugin_register_all(NoRecords, build_device_info, 1)
    /\ call = NoCall
    /\ ip_list = <<>>
    /\ sock_list = <<>>
    /\ sock = "None"
    /\ running = TRUE
    /\ sending_byebye = TRUE
    /\ rx = "open"
    /\ rx_i = 0
    /\ rx_todo = {}
    /\ dgram = NoDatagram
    /\ replies = <<>>
    /\ now = 0
    /\ bus = "STARTED"
    /\ http = "serving"
    /\ subscribed = TRUE
    /\ restart_lock = "free"
    /\ mon_cancel = FALSE
    /\ svc = "block"
    /\ svc_i = 0
    /\ sch = "sleep"
    /\ sch_i = 0
    /\ ssdp_monitor_counter = 0
    /\ tk = NoTick
    /\ stp = "none"
    /\ devices = build_device_info
    /\ last_ip = NoneIp
    /\ cur_ip = {If1}
    /\ nojoin = {}
    /\ ip_changes = 0
    /\ ticks = 0
    /\ cycle = NoCycle
    /\ bye = <<>>
    /\ alive = NoAlive
    /\ bind_failed = FALSE

InitStarted == StartedService /\ ExtInit

NextSched == RxQuiet \/ SchedTick \/ SchWork \/ EnvIpChange

SpecSched == InitStarted /\ [][NextSched]_vars

\* The steps of one update-ip cycle, in their order.
UpdateCycle == <<"stop", "register", "start">>

\* The steps of update-ip taken so far in this tick are the first ones of a cycle.
CycleBegun ==
    /\ Len(tk.order) <= Len(UpdateCycle)
    /\ \A i \in DOMAIN tk.order : tk.order[i] = UpdateCycle[i]

\* This tick has gone past the publish of ssdp_update_ip.
UpdatePassed ==
    ticks > 0 /\ sch \in {"n_publish", "n_check", "n_first", "n_send2", "sleep"}

\* C12: as long as no tick has seen the interfaces change, the counter counts
\* the ticks modulo 10, ticks 1..9 and 11..19 run no step of update-ip, and ticks
\* 10 and 20 run exactly one update-ip cycle.
C12_UpdateEveryTenTicks ==
    (ticks > 0 /\ ~tk.ever) =>
        /\ ssdp_monitor_counter = ticks % 10
        /\ ticks % 10 # 0 => tk.order = <<>>
        /\ ticks % 10 = 0 => /\ CycleBegun
                             /\ UpdatePassed => tk.order = UpdateCycle

\* Tick 20 has run its update-ip cycle, ten ticks after the one of tick 10.
C12_Witness ==
    /\ ticks = 20
    /\ ~tk.ever
    /\ sch = "sleep"
    /\ tk.order = UpdateCycle
    /\ tk.sweeps = 1
    /\ ssdp_monitor_counter = 0

\* The registry holds the six records of the devices of SSDPPlugin.
SixRegistered ==
    /\ Cardinality(DOMAIN known) = 6
    /\ DOMAIN known = { devices[i].usn : i \in DOMAIN devices }

InUpdateIp == sch \in {"u_flag", "u_join", "u_register", "u_start"}

\* The stopping thread is inside the locked body of SSDPPlugin.stop.
InPluginStop == stp \in {"x_flag", "x_join"}

\* C15: update_ip and SSDPPlugin.stop exclude each other: the two bodies are
\* never executed at the same time, and each is executed by the holder of
\* restart_lock.
C15_UpdateAndStopExclusive ==
    /\ ~(InUpdateIp /\ InPluginStop)
    /\ InUpdateIp => restart_lock = "sch"
    /\ InPluginStop => restart_lock = "stp"

\* SSDPPlugin.stop waits for the lock while update_ip joins the receive thread.
C15_Witness == stp = "x_lock" /\ sch = "u_join" /\ restart_lock = "sch"

\* C16: registry accesses are serialized, so no reader sees a record removed
\* between its check and its use: when do_notify on the scheduler thread has
\* passed the membership test of line 267, the record is still there for the
\* lookup of line 275.
C16_RegistrySerialized ==
    sch = "n_first" => devices[sch_i].usn \in DOMAIN known

-----------------------------------------------------------------------------
(* The scheduler when the update-ip cycle can fail.                         *)

NextSchedFail == RxQuiet \/ SchTick \/ SchWork \/ SchStartRaises \/ EnvIpChange

SpecSchedFail == InitStarted /\ [][NextSchedFail]_vars

\* C14: every tick performs exactly one alive sweep over the registered records,
\* whether or not it runs an update-ip cycle, and also when that cycle fails:
\* when the scheduler thread is back in its sleep, or has ended, the last tick
\* has done one whole sweep.
C14_SweepEveryTick ==
    (ticks > 0 /\ sch \in {"sleep", "crashed"}) => tk.sweeps = 1

-----------------------------------------------------------------------------
(* The first run of the service: the persisted ApplicationPort (0 by        *)
(* default) is not the port that is bound.                                  *)

InitRun(differs) ==
    /\ usn_setting = "ABC"
    /\ port_differs = differs
    /\ known = NoRecords
    /\ call = NoCall
    /\ ip_list = <<>>
    /\ sock_list = <<>>
    /\ sock = "None"
    /\ running = FALSE
    /\ sending_byebye = TRUE
    /\ rx = "none"
    /\ rx_i = 0
    /\ rx_todo = {}
    /\ dgram = NoDatagram
    /\ replies = <<>>
    /\ now = 0
    /\ bus = "STOPPED"
    /\ http = "down"
    /\ subscribed = FALSE
    /\ restart_lock = "free"
    /\ mon_cancel = FALSE
    /\ svc = "init"
    /\ svc_i = 0
    /\ sch = "off"
    /\ sch_i = 0
    /\ ssdp_monitor_counter = 0
    /\ tk = NoTick
    /\ stp = "none"
    /\ devices = build_device_info
    /\ last_ip = NoneIp
    /\ cur_ip = {If1}
    /\ nojoin = {}
    /\ ip_changes = 0
    /\ ticks = 0
    /\ cycle = NoCycle
    /\ bye = <<>>
    /\ alive = NoAlive
    /\ bind_failed = FALSE
    /\ ExtInit

InitFirstRun == InitRun(TRUE)

NextFirstRun == SvcStep \/ SvcPortStep \/ RxStep

SpecFirstRun == InitFirstRun /\ [][NextFirstRun]_vars

\* The six USNs derived from the current root USN.
CurrentUSNs == { build_device_info[i].usn : i \in DOMAIN build_device_info }

\* C17: whenever the receive loop is running after SSDPPlugin.start() or after a
\* completed update-ip cycle, the registry holds exactly six records, with
\* distinct USNs, all derived from the current root USN; here once Service.run
\* has reached engine.block(), after the start, the USN refresh and its
\* update-ip cycle.
C17_SixRecordsWhileRunning ==
    (svc = "block" /\ rx = "recv") =>
        /\ Cardinality(DOMAIN known) = 6
        /\ DOMAIN known = CurrentUSNs

-----------------------------------------------------------------------------
(* The registry: two SSDPServer objects (DLNAServer.start makes a new       *)
(* Service, SSDPPlugin and SSDPServer each time) and the calls of register, *)
(* unregister and shutdown on either, before any engine is started.         *)

Instances == {1, 2}

RegUSNs == {"uuid:ABC", "uuid:ABC::upnp:rootdevice", "uuid:XYZ"}

Loc81 == [pre |-> "http://", post |-> ":81/d.xml"]

\* The arguments st, location, server, cache_control of the register calls.
RegArgs ==
    { <<"upnp:rootdevice", Loc80, SERVER_ID, "max-age=1800">>,
      <<"uuid:ABC", Loc81, "Other Server", "max-age=66">> }

\* self.known of an instance: known is an attribute of the class SSDPServer,
\* line 48, and no instance ever assigns self.known, so every instance reads
\* and writes the one dict.
known_of(inst) == known

\* is_known(usn) on an instance.
is_known(inst, usn) == usn \in DOMAIN known_of(inst)

RegRegister ==
    /\ \E inst \in Instances, usn \in RegUSNs, a \in RegArgs :
          /\ known' = register(known_of(inst), usn, a[1], a[2], a[3], a[4])
          /\ call' = [inst |-> inst, op |-> "register", usn |-> usn,
                      raised |-> FALSE, before |-> known, st |-> a[1],
                      location |-> a[2], server |-> a[3], cache_control |-> a[4]]
    /\ UNCHANGED <<vEng, vFlag, vRx, vIo, now, vExt, vBus, vSvc, vSch, stp, vDev,
                   last_ip, vEnv, vHist>>

\* unregister(usn), lines 208-210: del self.known[usn] raises KeyError when
\* the USN is not a key.
RegUnregister ==
    /\ \E inst \in Instances, usn \in RegUSNs :
          /\ known' = IF is_known(inst, usn) THEN unregister(known_of(inst), usn)
                                             ELSE known
          /\ call' = [NoCall EXCEPT !.inst = inst, !.op = "unregister",
                                    !.usn = usn, !.before = known,
                                    !.raised = ~is_known(inst, usn)]
    /\ UNCHANGED <<vEng, vFlag, vRx, vIo, now, vExt, vBus, vSvc, vSch, stp, vDev,
                   last_ip, vEnv, vHist>>

\* shutdown(), lines 151-156, on an engine that was not started: self.sock is
\* None, so do_byebye sends nothing; every USN is unregistered.
RegShutdown ==
    /\ \E inst \in Instances :
          /\ known' = shutdown_unregister(known_of(inst))
          /\ call' = [NoCall EXCEPT !.inst = inst, !.op = "shutdown",
                                    !.before = known]
    /\ UNCHANGED <<vEng, vFlag, vRx, vIo, now, vExt, vBus, vSvc, vSch, stp, vDev,
                   last_ip, vEnv, vHist>>

NextReg == RegRegister \/ RegUnregister \/ RegShutdown

SpecReg == InitOne /\ [][NextReg]_vars

\* C18: each SSDPServer instance owns its registry: a register, unregister or
\* shutdown on one instance never changes what is_known answers on another.
C18_RegistryPerInstance ==
    \A i \in Instances : \A usn \in RegUSNs :
        (call.op # "none" /\ call.inst # i) =>
            (is_known(i, usn) <=> usn \in DOMAIN call.before)

\* C19: register is an idempotent insert/overwrite: after register(usn, ...)
\* the record of usn has the new ST, LOCATION, SERVER and CACHE-CONTROL, the
\* other records are as before, the number of records is unchanged when usn
\* was registered already, and the same call again changes nothing.
C19_RegisterOverwrites ==
    call.op = "register" =>
        /\ is_known(call.inst, call.usn)
        /\ known[call.usn]["USN"] = call.usn
        /\ known[call.usn]["ST"] = call.st
        /\ known[call.usn]["LOCATION"] = call.location
        /\ known[call.usn]["SERVER"] = call.server
        /\ known[call.usn]["CACHE-CONTROL"] = call.cache_control
        /\ \A u \in DOMAIN call.before \ {call.usn} :
              u \in DOMAIN known /\ known[u] = call.before[u]
        /\ DOMAIN known = DOMAIN call.before \cup {call.usn}
        /\ call.usn \in DOMAIN call.before =>
              Cardinality(DOMAIN known) = Cardinality(DOMAIN call.before)
        /\ register(known, call.usn, call.st, call.location, call.server,
                    call.cache_control) = known

\* A register call has overwritten a record that had other values.
C19_Witness ==
    /\ call.op = "register"
    /\ call.usn \in DOMAIN call.before
    /\ call.before[call.usn]["ST"] # call.st
    /\ call.before[call.usn]["CACHE-CONTROL"] # call.cache_control
    /\ Cardinality(DOMAIN known) = 2

\* C20: unregister(usn) removes the record of a registered USN, and for a USN
\* that is not registered it returns normally, raising nothing, and leaves the
\* registry unchanged.
C20_UnregisterAbsentNoop ==
    call.op = "unregister" =>
        /\ ~call.raised
        /\ ~is_known(call.inst, call.usn)
        /\ \A u \in DOMAIN call.before \ {call.usn} :
              u \in DOMAIN known /\ known[u] = call.before[u]

-----------------------------------------------------------------------------
(* The announcements of a running engine: any registry contents, do_notify  *)
(* and do_byebye for any USN.                                               *)

NextAnnounce == ApiRegister \/ ApiUnregister \/ ApiNotify \/ ApiByebye

SpecAnnounce == InitDisc /\ [][NextAnnounce]_vars

\* The datagrams of the last do_notify or do_byebye call.
Announced == Range(alive.sends) \cup Range(bye)

\* C21: for a registered record the message of do_notify carries NTS ssdp:alive
\* and that of do_byebye NTS ssdp:byebye, both with an NT header equal to the
\* record's ST and without an ST header; for a USN that is not registered both
\* send nothing; neither changes the registry.
C21_AnnouncementHeaders ==
    call.op \in {"do_notify", "do_byebye"} =>
        /\ known = call.before
        /\ call.usn \notin DOMAIN known => Announced = {}
        /\ call.usn \in DOMAIN known =>
              /\ Cardinality(Announced) = Len(sock_list)
              /\ \A d \in Announced :
                    /\ d.msg.NTS = IF call.op = "do_notify" THEN "ssdp:alive"
                                                            ELSE "ssdp:byebye"
                    /\ "ST" \notin DOMAIN d.msg.hdrs
                    /\ "NT" \in DOMAIN d.msg.hdrs
                    /\ d.msg.hdrs["NT"] = known[call.usn]["ST"]
                    /\ d.msg.hdrs["USN"] = call.usn

\* A byebye has been sent for a record whose ST is not its USN.
C21_Witness ==
    /\ call.op = "do_byebye"
    /\ bye # <<>>
    /\ known[call.usn]["ST"] # call.usn
    /\ bye[1].msg.hdrs["NT"] = known[call.usn]["ST"]

-----------------------------------------------------------------------------
(* The started service on a host where the multicast join can fail on one   *)
(* interface, with requesters on every subnet.                              *)

\* recvfrom returns an M-SEARCH from a requester on any subnet.
RxDatagramFrom ==
    /\ rx = "recv"
    /\ \E data \in LifeDatagrams, host \in Hosts : Handle(data, host)
    /\ UNCHANGED <<known, call, ip_list, sock_list, sock, running, sending_byebye, rx_i,
                   rx_todo, now, vExt, stp, last_ip,
                   vBus, vSvc, vSch, vDev, vEnv, vHist>>

NextJoin == SvcStep \/ RxQuiet \/ RxDatagramFrom \/ SchTick \/ SchWork

SpecJoin == Init /\ [][NextJoin]_vars

\* C22: an interface whose multicast join failed is skipped: the engine still
\* starts on the others, and the failed one is neither among the interfaces
\* announcements are sent through nor the local address of a discovery reply.
C22_FailedInterfaceSkipped ==
    /\ \A s \in Range(sock_list) : s.ip \notin nojoin
    /\ \A i \in DOMAIN alive.sends : alive.sends[i].ip \notin nojoin
    /\ \A i \in DOMAIN replies : replies[i].via \notin nojoin

-----------------------------------------------------------------------------
(* The plugin coordinator: the calls of start, stop, set_renderer and       *)
(* set_protocol on one thread, publish() on another.                        *)

NextPlug == PlugStep \/ PubStep

SpecPlug == InitOne /\ [][NextPlug]_vars

\* The handlers of a kind that are subscribed.
SubsOf(k) == { h \in subs : h.obj \in InstancesOf(k) \cup {PluginOf(k)} }

\* C23: start() starts the implementation first and subscribes afterwards: no
\* handler of an instance, and no control handler for it, is subscribed before
\* the start() of that instance has returned.
C23_StartBeforeSubscribe ==
    \A k \in Kinds : \A h \in SubsOf(k) :
        /\ h.obj \in AllInstances => impl_running[h.obj]
        /\ h.obj = PluginOf(k) => impl_running[cur[k]]

\* start() is about to subscribe for an instance it has just started.
C23_Witness ==
    /\ pt.op = "start"
    /\ pt.prog = <<"subscribe_control", "subscribe_methods">>
    /\ impl_running[cur[pt.k]]
    /\ SubsOf(pt.k) = {}

\* C24: stop() unsubscribes every handler that start() subscribed before it
\* calls the implementation's stop(): when that stop() is invoked no handler
\* of the kind is subscribed.
C24_UnsubscribeBeforeStop ==
    (pt.prog # <<>> /\ Head(pt.prog) = "impl_stop") => SubsOf(pt.k) = {}

\* stop() has unsubscribed a wired instance and is about to stop it.
C24_Witness ==
    /\ pt.op = "stop"
    /\ pt.prog = <<"impl_stop">>
    /\ impl_running[cur[pt.k]]
    /\ SubsOf(pt.k) = {}

\* C25: a swap is atomic for the bus: a get_renderer / get_protocol query
\* published while the plugin is started, a swap in progress or not, finds the
\* handler subscribed (its result list is not empty) and a current instance
\* whose capability handlers are subscribed.
C25_SwapAtomic ==
    ( /\ pub.pos = "done"
      /\ pub.topic \in {"get_renderer", "get_protocol"}
      /\ pub.began_active
      /\ active[KindOf(pub.topic)] ) =>
        /\ pub.result # {}
        /\ ~pub.torn

\* C26: after set_renderer(new) / set_protocol(new) has completed, the handlers
\* subscribed for the kind are the three control handlers and one handler of
\* new for each name of new.methods(), and none is bound to the old instance.
C26_SwapRewires ==
    (pt.op = "set" /\ pt.prog = <<>> /\ ~pt.failed) =>
        /\ SubsOf(pt.k) = ControlSubs(pt.k, pt.new)
                             \cup { [topic |-> m, obj |-> pt.new] : m \in methods(pt.new) }
        /\ pt.old # pt.new => \A h \in subs : h.obj # pt.old

\* A wired r1 has been swapped for r2, which has another capability set.
C26_Witness ==
    /\ pt.op = "set"
    /\ pt.prog = <<>>
    /\ ~pt.failed
    /\ pt.old = "r1"
    /\ pt.new = "r2"
    /\ active["renderer"]
    /\ [topic |-> "set_media_volume", obj |-> "r2"] \in subs
    /\ [topic |-> "set_media_stop", obj |-> "r2"] \notin subs

\* C27: no event is delivered to the old instance after the stop() of the swap
\* has stopped it, events whose dispatch began before the unsubscription
\* included.
C27_NoEventAfterStop == ~pub.late

\* C28: when the start() of the instance swapped in fails, the error goes to
\* the caller of set_renderer / set_protocol, and the coordinator is left
\* with no handler subscribed, the old instance stopped and the new one not
\* started.
C28_SwapStartFailureSurfaced ==
    (pt.op = "set" /\ pt.failed) =>
        /\ pt.raised
        /\ pt.prog = <<>>
        /\ SubsOf(pt.k) = {}
        /\ ~impl_running[pt.old]
        /\ ~impl_running[pt.new]

\* The start() of a new instance has failed in a swap.
C28_Witness ==
    /\ pt.op = "set"
    /\ pt.failed
    /\ pt.old # pt.new
    /\ cur[pt.k] = pt.new
    /\ ~active[pt.k]

-----------------------------------------------------------------------------
(* The port binder.                                                         *)

NextPort == ApStep

SpecPort == InitOne /\ [][NextPort]_vars

\* The bind attempts of the start() in progress.
Attempts == DOMAIN ap.attempts

Failed(i) == ap.attempts[i].outcome \in {"timeout", "error"}

\* C29: when the bind of a non-zero preferred port fails with a timeout, the
\* server falls back to port 0 once: within one start the preferred port is
\* attempted at most once, port 0 at most once, the preferred port never after
\* port 0, and after the fallback bind_addr stays on port 0.
C29_FallbackOnce ==
    /\ \A i, j \in Attempts :
          i < j => ap.attempts[i].port # 0 /\ ap.attempts[j].port = 0
    /\ Len(ap.attempts) <= 2
    /\ ap.fell_back => ap.port = 0
    /\ \A i \in Attempts :
          ap.attempts[i].port # 0 /\ ap.attempts[i].outcome = "timeout"
             => /\ ap.fell_back
                /\ \/ ap.pos = "start" /\ i = Len(ap.attempts)
                   \/ Len(ap.attempts) = 2

\* The preferred port timed out and the server serves on port 0.
C29_Witness ==
    /\ Len(ap.attempts) = 2
    /\ ap.attempts[1] = [port |-> 8080, outcome |-> "timeout"]
    /\ ap.attempts[2] = [port |-> 0, outcome |-> "bound"]
    /\ ap.pos = "serving"

\* C30: a bind failure on port 0 is raised to the caller of start() and no
\* bind attempt follows it.
C30_ZeroFailurePropagates ==
    \A i \in Attempts :
       ap.attempts[i].port = 0 /\ Failed(i)
          => /\ i = Len(ap.attempts)
             /\ ap.pos = "raised"
             /\ \/ ap.main = "raised"
                \/ ap.main = "wait" /\ ap.interrupt

\* Port 0 failed, both when configured and after the fallback, and the caller
\* has the error.
C30_Witness ==
    /\ ap.pos = "raised"
    /\ ap.main = "raised"
    /\ ap.attempts[Len(ap.attempts)] = [port |-> 0, outcome |-> "timeout"]
    /\ ap.fell_back

-----------------------------------------------------------------------------
(* The port test of Service.run, with the ApplicationPort setting equal to  *)
(* the bound port or not.                                                   *)

InitPortCheck == \E differs \in BOOLEAN : InitRun(differs)

SpecPortCheck == InitPortCheck /\ [][NextFirstRun]_vars

\* C31: once Service.run has passed its port test and blocks: if the bound
\* port differed from the stored one, the USN and the display name are new,
\* the bound port is stored, and the update-ip cycle has registered the
\* devices of the new USN with the bound port and restarted the engine; if
\* the ports were equal, the USN and the display name are the ones stored.
C31_PortCheck ==
    svc = "block" =>
        /\ ident.tested
        /\ get_port = BoundPort
        /\ IF ident.differed
           THEN /\ usn_setting # "ABC"
                /\ ident.name # NoIdentity.name
                /\ devices = build_device_info
                /\ \A u \in CurrentUSNs :
                      /\ u \in DOMAIN known
                      /\ known[u]["LOCATION"] = LocationOf(BoundPort)
                /\ running
           ELSE /\ usn_setting = "ABC"
                /\ ident.name = NoIdentity.name

\* The ports differed, and Service.run blocks with the engine receiving again.
C31_Witness == svc = "block" /\ ident.differed /\ rx = "recv"

\* C32: every discovery reply and every alive notification carries a LOCATION
\* whose port is the port the HTTP listener is bound to, also between the
\* first start of the engine and the end of the port test of Service.run.
C32_LocationPortIsBound ==
    /\ \A i \in DOMAIN replies :
          replies[i].LOCATION = Format(LocationOf(BoundPort), replies[i].via)
    /\ alive.msg # <<>> => alive.msg.hdrs["LOCATION"] = LocationOf(BoundPort)

\* SSDPPlugin.stop() has returned on the thread of engine.exit().
PluginStopReturned == stp \in {"x_monitor", "x_exit", "done"}

\* C33: once SSDPPlugin.stop() has returned the engine is not running and its
\* receive thread has ended; no update_ip that was dispatched before starts
\* it again.
C33_StoppedStaysStopped == PluginStopReturned => ~running /\ Terminated

-----------------------------------------------------------------------------
(* All the callers of SSDPServer.start and stop: SSDPPlugin.start, the      *)
(* update_ip of the scheduler, the update_ip of Service.run after a port    *)
(* that differs, and SSDPPlugin.stop.                                       *)

NextCallers == NextThreads \/ SvcPortStep

SpecCallers == InitFirstRun /\ [][NextCallers]_vars

\* A thread takes the step of stop() that tests self.running.
StopTestStep ==
    \/ svc = "p_lock" /\ svc' # svc
    \/ sch = "u_lock" /\ sch' # sch
    \/ stp = "x_lock" /\ stp' # stp

\* C34: one receive thread at most is alive. A step that begins a receive
\* thread is taken with the engine not running and the thread before it
\* ended, so start() on a running engine begins none; and a stop() that finds
\* the engine not running changes nothing of the engine.
C34_OneReceiveThread ==
    [][ /\ (rx' = "open" /\ rx # "open") => (~running /\ Terminated)
        /\ (running /\ running') => (rx' # "open" \/ rx = "open")
        /\ (StopTestStep /\ ~running)
              => UNCHANGED <<vFlag, vRx, vEng>> ]_vars

\* The update_ip of Service.run and an update_ip of the scheduler have both
\* restarted the engine, and its thread receives.
C34_Witness ==
    /\ ident.differed
    /\ svc = "block"
    /\ tk.order # <<>>
    /\ sch = "sleep"
    /\ rx = "recv"

-----------------------------------------------------------------------------
(* The plugins with reload events.                                          *)

NextReload == PlugStep \/ ReloadStep

SpecReload == InitOne /\ [][NextReload]_vars

\* C35: a renderer that has a capability handler subscribed on the bus has
\* its running flag set, so no event is dispatched to a renderer that is not
\* running; also while a reload_renderer event is processed.
C35_SubscribedRendererRuns ==
    \A h \in subs :
       (h.obj \in InstancesOf("renderer") /\ h \in MethodSubs(h.obj))
          => impl_running[h.obj]

-----------------------------------------------------------------------------
(* The two ways of a renderer swap: the setter of Service.renderer and the  *)
(* set_renderer topic of the bus.                                           *)

NextAccess == BusStart \/ SvcSetRenderer \/ BusSetRenderer \/ PlugRun

SpecAccess == InitOne /\ [][NextAccess]_vars

\* C36: between swaps, Service.renderer (self._renderer) is the instance
\* RendererPlugin.get_renderer() returns, whether the swaps were made by
\* assigning Service.renderer or by publishing set_renderer.
C36_AccessorIsActiveRenderer ==
    pt.prog = <<>> => held["renderer"] = cur["renderer"]

-----------------------------------------------------------------------------
(* The assignment of Service.protocol on a running service.                 *)

\* engine.start() has run the start() of both plugins.
StartedPlugins ==
    /\ cur = [k \in Kinds |-> IF k = "renderer" THEN "r1" ELSE "p1"]
    /\ subs = UNION { ControlSubs(k, cur[k]) \cup MethodSubs(cur[k]) : k \in Kinds }
    /\ impl_running = [o \in AllInstances |-> o \in {"r1", "p1"}]
    /\ pt = NoPluginCall
    /\ pub = NoPublish
    /\ active = [k \in Kinds |-> TRUE]
    /\ ap = NoServer
    /\ ident = NoIdentity
    /\ rl = NoReload
    /\ held = cur
    /\ hs = NoSwap
    /\ dlna = NoDlna

InitHot == StartedService /\ StartedPlugins

NextHot == HsStep \/ PlugRun \/ StpRun \/ RxQuiet \/ SchTick \/ SchWork \/ SchExit

SpecHot == InitHot /\ [][NextHot]_vars

\* The SSDP engine, the scheduler and the HTTP listener are up on a started bus.
ServiceUp ==
    /\ bus = "STARTED"
    /\ http = "serving"
    /\ running
    /\ ~SchEnded

\* C37: the assignment of Service.protocol on a running service is a hot
\* swap: the engine, the scheduler and the HTTP listener stay up from its
\* beginning, and once it is over the old protocol has been stopped once,
\* the new one started once, and the handlers of the new one are subscribed.
C37_ProtocolHotSwap ==
    /\ hs.pos # "new" => ServiceUp
    /\ hs.pos = "done" =>
          /\ hs.stops = 1
          /\ hs.starts = 1
          /\ MethodSubs(hs.new) \subseteq subs

-----------------------------------------------------------------------------
(* DLNAServer: start, stop and restart.                                     *)

NextDlna == DlStep

SpecDlna == InitOne /\ [][NextDlna]_vars

\* C38: after a stop() and a start(), one renderer is wired to the started
\* bus, that of the Service made last, and a set_media_url event calls each
\* cast callback once.
C38_OneServiceWired ==
    (dlna.made >= 2 /\ dlna.bus = "STARTED") =>
        /\ dlna.wired = {dlna.mine}
        /\ dlna.casts <= 1

\* The service runs, or is about to: the running flag, or the bus.
DlnaRunning == dlna.running \/ dlna.bus \in {"STARTING", "STARTED"}

\* C39: once stop() has returned, and until start() is called again, the
\* server is not running, whatever a start() on another thread was doing
\* when stop() was called.
C39_StoppedAfterStop == dlna.stopped => ~DlnaRunning

-----------------------------------------------------------------------------
(* The interfaces of the engine and the snapshot of Setting.                *)

\* The scheduler sleeps between two ticks and the receive thread of the
\* running engine is in its loop: every tick, with its update-ip cycle and
\* the restart of the engine, has completed.
TicksCompleted == sch = "sleep" /\ running /\ rx = "recv"

=============================================================================
